---- MODULE Spec2Model ----
(***************************************************************************)
(* Layout and drag-reflow engine of the quadrant board (advanced-kanban).  *)
(*                                                                         *)
(* Indices are 0-based as in the TypeScript source; sequences are TLA+     *)
(* sequences, so element i of an array a is a[i + 1] (operator At).        *)
(* Fractions (column frac, rowFracs) are exact rationals <<n, d>> in       *)
(* lowest terms with d > 0: the source's IEEE doubles are modelled by the  *)
(* real numbers they approximate.                                          *)
(* Identifiers produced by crypto.randomUUID() are the successive values   *)
(* of the counter nextId, so every generated id is fresh.                  *)
(***************************************************************************)
EXTENDS Integers, Sequences, FiniteSets, TLC

VARIABLES
  mounted,             \* the board component the page renders
  state,               \* the BoardState: columns, cardsByCell, rowFracs
  nextId,              \* the next value crypto.randomUUID() returns
  colResize,           \* the window listeners of a column-resize gesture
  rowResize,           \* the window listeners of a row-resize gesture
  activeColumnHandle,  \* <<index>> while a column handle is active, else <<>>
  activeRowHandle,     \* <<index>> while a row handle is active, else <<>>
  simple,              \* the simple board's BoardState: columns, tasksByCell
  last,                \* the event handled last: its arguments and the state before
  steps                \* commands and gestures begun so far

vars == <<mounted, state, nextId, colResize, rowResize, activeColumnHandle,
          activeRowHandle, simple, last, steps>>

-----------------------------------------------------------------------------
(* Bounds of the exploration.                                              *)

\* commands and resize gestures explored from each initial board
MaxSteps == 1

\* the longest column list and the longest cell list handed to the layout
\* functions, and the largest row count
MaxColumns == 3
MaxCells == 3
MaxRows == 4

-----------------------------------------------------------------------------
(* Program constants.                                                      *)

MIN_COL_PX == 140
MIN_ROW_PX == 80

\* the absent value (null / undefined)
None == [none |-> TRUE]

-----------------------------------------------------------------------------
(* Exact rational arithmetic.                                              *)

Abs(x) == IF x < 0 THEN -x ELSE x

RECURSIVE GCD(_, _)
GCD(a, b) == IF b = 0 THEN a ELSE GCD(b, a % b)

Rat(n, d) ==
  LET g == GCD(Abs(n), Abs(d))
      s == IF d < 0 THEN -1 ELSE 1
  IN  <<(s * n) \div g, (s * d) \div g>>

RZero == <<0, 1>>
ROne == <<1, 1>>
RAdd(x, y) == Rat(x[1] * y[2] + y[1] * x[2], x[2] * y[2])
RSub(x, y) == Rat(x[1] * y[2] - y[1] * x[2], x[2] * y[2])
RMul(x, y) == Rat(x[1] * y[1], x[2] * y[2])
RDiv(x, y) == Rat(x[1] * y[2], x[2] * y[1])
RLt(x, y) == x[1] * y[2] < y[1] * x[2]
RLe(x, y) == x[1] * y[2] <= y[1] * x[2]
RMin(x, y) == IF RLe(x, y) THEN x ELSE y
RMax(x, y) == IF RLe(x, y) THEN y ELSE x

RECURSIVE RSum(_)
RSum(s) == IF s = <<>> THEN RZero ELSE RAdd(Head(s), RSum(Tail(s)))

-----------------------------------------------------------------------------
(* Array helpers with the semantics of the JavaScript built-ins.           *)

Min(a, b) == IF a < b THEN a ELSE b
Max(a, b) == IF a < b THEN b ELSE a

\* a[i]: the element, or None (undefined) outside the array
At(a, i) == IF i >= 0 /\ i < Len(a) THEN a[i + 1] ELSE None

\* Array.prototype.splice's start index: negative counts from the end
SpliceStart(a, i) == IF i < 0 THEN Max(Len(a) + i, 0) ELSE Min(i, Len(a))

\* a.splice(i, 1): the array left
SpliceOut(a, i) ==
  LET k == SpliceStart(a, i)
  IN  SubSeq(a, 1, k) \o SubSeq(a, k + 2, Len(a))

\* a.splice(i, 1)[0]: the element removed, or None
SpliceTaken(a, i) == At(a, SpliceStart(a, i))

\* a.splice(i, 1) removes an element
SpliceTakes(a, i) == SpliceStart(a, i) < Len(a)

\* a[i] is an element of the array
Holds(a, i) == i >= 0 /\ i < Len(a)

\* a.splice(i, 0, x)
SpliceIn(a, i, x) ==
  LET k == SpliceStart(a, i)
  IN  SubSeq(a, 1, k) \o <<x>> \o SubSeq(a, k + 1, Len(a))

\* a with element i replaced by x
SetAt(a, i, x) == [a EXCEPT ![i + 1] = x]

\* the elements of an array
Range(f) == {f[i] : i \in DOMAIN f}

clamp(value, min, max) == Min(Max(value, min), max)

RClamp(value, min, max) == RMin(RMax(value, min), max)

arrayMove(items, from, to) ==
  LET moved == SpliceTaken(items, from)
      next == SpliceOut(items, from)
      boundedIndex == IF to < 0 THEN 0 ELSE IF to > Len(next) THEN Len(next) ELSE to
  IN  IF moved = None THEN items ELSE SpliceIn(next, boundedIndex, moved)

-----------------------------------------------------------------------------
(* Layout invariant maintainer (lib/boardUtils: the functions the board    *)
(* imports; their bodies follow section 4.1 of the specification).         *)

RECURSIVE sumSpans(_)
sumSpans(cells) ==
  IF cells = <<>> THEN 0 ELSE Head(cells).span + sumSpans(Tail(cells))

Fracs(cols) == [i \in 1..Len(cols) |-> cols[i].frac]

\* a total of 0 is met with equal shares instead of the input
normalizeFracsEqualShares(cols) ==
  LET total == RSum(Fracs(cols))
  IN  IF total = RZero
        THEN [i \in 1..Len(cols) |-> [cols[i] EXCEPT !.frac = Rat(1, Len(cols))]]
      ELSE [i \in 1..Len(cols) |-> [cols[i] EXCEPT !.frac = RDiv(@, total)]]

\* every frac divided by the total; the input itself when the total is 0
normalizeFracs(cols) ==
  LET total == RSum(Fracs(cols))
  IN  IF total = RZero THEN cols
      ELSE [i \in 1..Len(cols) |-> [cols[i] EXCEPT !.frac = RDiv(@, total)]]

\* the index that takes a deficit: preserveIndex when in range, else the last
GainIndex(cells, preserveIndex) ==
  IF preserveIndex >= 0 /\ preserveIndex < Len(cells) THEN preserveIndex
  ELSE Len(cells) - 1

AddSpan(cells, i, k) == [cells EXCEPT ![i + 1].span = @ + k]

\* the order in which cells cede span on overflow: index order from 0, the
\* preserved index last
RECURSIVE CedeOrder(_, _, _)
CedeOrder(n, preserveIndex, i) ==
  IF i >= n THEN IF preserveIndex >= 0 /\ preserveIndex < n THEN <<preserveIndex>> ELSE <<>>
  ELSE IF i = preserveIndex THEN CedeOrder(n, preserveIndex, i + 1)
  ELSE <<i>> \o CedeOrder(n, preserveIndex, i + 1)

\* each cell of the order cedes min(overflow, span - 1); returns the cells
\* and the overflow left
RECURSIVE Cede(_, _, _)
Cede(cells, order, overflow) ==
  IF order = <<>> \/ overflow = 0 THEN [cells |-> cells, overflow |-> overflow]
  ELSE LET i == Head(order)
           give == Min(overflow, cells[i + 1].span - 1)
       IN  Cede(AddSpan(cells, i, -give), Tail(order), overflow - give)

clampSpansToRows(cells, rows, preserveIndex) ==
  LET rounded == [i \in 1..Len(cells) |-> [cells[i] EXCEPT !.span = Max(1, @)]]
      total == sumSpans(rounded)
      n == Len(rounded)
  IN  IF n = 0 \/ total = rows THEN rounded
      ELSE IF total < rows
        THEN AddSpan(rounded, GainIndex(rounded, preserveIndex), rows - total)
      ELSE
        LET pass == Cede(rounded, CedeOrder(n, preserveIndex, 0), total - rows)
            forced == IF pass.overflow = 0 THEN pass.cells
                      ELSE [pass.cells EXCEPT
                              ![n].span = Max(1, @ - pass.overflow)]
            short == rows - sumSpans(forced)
        IN  IF short > 0
              THEN AddSpan(forced, GainIndex(forced, preserveIndex), short)
              ELSE forced

\* Math.round of a number given as a rational
Round(x) == RAdd(x, Rat(1, 2))[1] \div RAdd(x, Rat(1, 2))[2]

\* cells whose spans are any numbers, with every span rounded to the nearest
\* integer: what clampSpansToRows makes of its argument before anything else
roundSpans(cells) == [i \in 1..Len(cells) |-> [cells[i] EXCEPT !.span = Round(@)]]

\* cells: the column's cells after the removal
absorbSpanAfterRemoval(cells, removedIndex, removedSpan) ==
  IF cells = <<>> THEN cells
  ELSE AddSpan(cells, clamp(removedIndex - 1, 0, Len(cells) - 1), removedSpan)

\* the clamp is given the index as passed, not the bounded one
insertCellWithClampRawPreserve(cells, insertIndex, newCell, rows) ==
  LET bounded == clamp(insertIndex, 0, Len(cells))
  IN  clampSpansToRows(SpliceIn(cells, bounded, newCell), rows, insertIndex)

insertCellWithClamp(cells, insertIndex, newCell, rows) ==
  LET bounded == clamp(insertIndex, 0, Len(cells))
  IN  clampSpansToRows(SpliceIn(cells, bounded, newCell), rows, bounded)

-----------------------------------------------------------------------------
(* Droppable ids.  An id string is the sequence of its tokens, separators  *)
(* included: "quad:0:1:top" is <<"quad", ":", "0", ":", "1", ":", "top">>. *)

\* what a destructuring pattern binds past the end of the split array
Undefined == <<"undefined">>

Digits == {"0", "1", "9"}

DigitValue(d) == CASE d = "0" -> 0 [] d = "1" -> 1 [] d = "9" -> 9

IsDigits(part) == part # <<>> /\ \A k \in DOMAIN part : part[k] \in Digits

RECURSIVE Decimal(_)
Decimal(part) ==
  IF part = <<>> THEN 0
  ELSE 10 * Decimal(SubSeq(part, 1, Len(part) - 1)) + DigitValue(part[Len(part)])

NaN == [nan |-> TRUE, value |-> 0]

\* Number(part): the empty string converts to 0, a string that is no numeric
\* literal (and undefined) to NaN
Number(part) ==
  IF part = <<>> THEN [nan |-> FALSE, value |-> 0]
  ELSE IF IsDigits(part) THEN [nan |-> FALSE, value |-> Decimal(part)]
  ELSE IF Head(part) = "-" /\ IsDigits(Tail(part))
    THEN [nan |-> FALSE, value |-> -Decimal(Tail(part))]
  ELSE NaN

\* id.split(sep)
RECURSIVE Split(_, _)
Split(id, sep) ==
  IF \A k \in DOMAIN id : id[k] # sep THEN <<id>>
  ELSE LET first == CHOOSE k \in DOMAIN id :
                      id[k] = sep /\ \A j \in 1..(k - 1) : id[j] # sep
       IN  <<SubSeq(id, 1, first - 1)>> \o Split(SubSeq(id, first + 1, Len(id)), sep)

\* element i of a destructured array
Part(parts, i) == IF i < Len(parts) THEN parts[i + 1] ELSE Undefined

-----------------------------------------------------------------------------
(* The quadrant board.                                                     *)

INITIAL_ROWS == <<Rat(34, 100), Rat(33, 100), Rat(33, 100)>>

Cell(id, title, span) == [id |-> id, title |-> title, span |-> span]

Column(id, frac, cells) == [id |-> id, frac |-> frac, cells |-> cells]

\* ids 1..3 are the columns, 4..10 the cells, 11..20 the seeded cards; the
\* titles are the source's, in English
createInitialBoard ==
  [ columns |->
      << Column(1, Rat(34, 100),
                <<Cell(4, "ideas", 1), Cell(5, "requirements", 2)>>),
         Column(2, Rat(33, 100),
                <<Cell(6, "design", 1), Cell(7, "development", 1),
                  Cell(8, "review", 1)>>),
         Column(3, Rat(33, 100),
                <<Cell(9, "release preparation", 2), Cell(10, "done", 1)>>) >>,
    cardsByCell |->
      (4 :> <<11, 12>>) @@ (5 :> <<13>>) @@ (6 :> <<14>>) @@ (7 :> <<15, 16>>)
        @@ (8 :> <<17>>) @@ (9 :> <<18, 19>>) @@ (10 :> <<20>>),
    rowFracs |-> INITIAL_ROWS ]

Directions == {"top", "bottom", "left", "right"}

Quadrant(columnIndex, cellIndex, direction) ==
  [columnIndex |-> columnIndex, cellIndex |-> cellIndex, direction |-> direction]

parseQuadrantId(id) ==
  LET parts == Split(id, ":")
      columnIndex == Number(Part(parts, 1))
      cellIndex == Number(Part(parts, 2))
      directionPart == Part(parts, 3)
  IN  IF Part(parts, 0) # <<"quad">> THEN None
      ELSE IF columnIndex.nan \/ cellIndex.nan THEN None
      ELSE IF Len(directionPart) # 1 \/ directionPart[1] \notin Directions THEN None
      ELSE Quadrant(columnIndex.value, cellIndex.value, directionPart[1])

\* null, or the index, as [isNull, index]
parseColumnDroppableId(id) ==
  LET parts == Split(id, "-")
      index == Number(Part(parts, 1))
  IN  IF Part(parts, 0) # <<"col">> THEN [isNull |-> TRUE, index |-> 0]
      ELSE [isNull |-> index.nan, index |-> index.value]

\* the right-hand fallback without the step past the target cell
resolveTargetRightAtTarget(cols, quadrant) ==
  LET c == quadrant.columnIndex
      i == quadrant.cellIndex
  IN  CASE quadrant.direction = "top" -> [columnIndex |-> c, insertIndex |-> i]
        [] quadrant.direction = "bottom" -> [columnIndex |-> c, insertIndex |-> i + 1]
        [] quadrant.direction = "left" ->
             IF c - 1 < 0
               THEN [columnIndex |-> c, insertIndex |-> i]
               ELSE [columnIndex |-> c - 1,
                     insertIndex |-> clamp(i, 0, Len(At(cols, c - 1).cells))]
        [] quadrant.direction = "right" ->
             IF c + 1 >= Len(cols)
               THEN [columnIndex |-> c, insertIndex |-> i]
               ELSE [columnIndex |-> c + 1,
                     insertIndex |-> clamp(i, 0, Len(At(cols, c + 1).cells))]

\* the destination before the same-column index correction
resolveTarget(cols, quadrant) ==
  LET c == quadrant.columnIndex
      i == quadrant.cellIndex
      targetColumn == At(cols, c)
  IN  CASE quadrant.direction = "top" ->
             [columnIndex |-> c, insertIndex |-> i]
        [] quadrant.direction = "bottom" ->
             [columnIndex |-> c, insertIndex |-> i + 1]
        [] quadrant.direction = "left" ->
             IF c - 1 < 0
               THEN [columnIndex |-> c, insertIndex |-> i]
               ELSE [columnIndex |-> c - 1,
                     insertIndex |-> clamp(i, 0, Len(At(cols, c - 1).cells))]
        [] quadrant.direction = "right" ->
             IF c + 1 >= Len(cols)
               THEN [columnIndex |-> c,
                     insertIndex |-> clamp(i + 1, 0, Len(targetColumn.cells))]
               ELSE [columnIndex |-> c + 1,
                     insertIndex |-> clamp(i, 0, Len(At(cols, c + 1).cells))]

\* the resolver without the same-column index correction
resolveDestinationUncorrected(cols, quadrant, sourceColumnIndex, sourceIndex) ==
  IF At(cols, quadrant.columnIndex) = None THEN None
  ELSE resolveTarget(cols, quadrant)

\* a missing target column is replaced by the last column of the board
resolveDestinationNearestColumn(cols, quadrant, sourceColumnIndex, sourceIndex) ==
  IF cols = <<>> THEN None
  ELSE LET near == [quadrant EXCEPT !.columnIndex = clamp(@, 0, Len(cols) - 1)]
           t == resolveTarget(cols, near)
       IN  IF t.columnIndex = sourceColumnIndex /\ t.insertIndex > sourceIndex
             THEN [t EXCEPT !.insertIndex = @ - 1]
             ELSE t

\* the index is lowered also when it equals the source index
resolveDestinationCorrectsFromSource(cols, quadrant, sourceColumnIndex, sourceIndex) ==
  IF At(cols, quadrant.columnIndex) = None THEN None
  ELSE LET t == resolveTarget(cols, quadrant)
       IN  IF t.columnIndex = sourceColumnIndex /\ t.insertIndex >= sourceIndex
             THEN [t EXCEPT !.insertIndex = @ - 1]
             ELSE t

resolveDestination(cols, quadrant, sourceColumnIndex, sourceIndex) ==
  IF At(cols, quadrant.columnIndex) = None THEN None
  ELSE LET t == resolveTarget(cols, quadrant)
       IN  IF t.columnIndex = sourceColumnIndex /\ t.insertIndex > sourceIndex
             THEN [t EXCEPT !.insertIndex = @ - 1]
             ELSE t

\* SelfCheckBadge: columns.every((column) => column.cells.length > 0)
noEmpty(columns) == \A i \in 1..Len(columns) : Len(columns[i].cells) > 0

\* SelfCheckBadge: the ok of the "no empty column" item
noEmptyOk(columns) == noEmpty(columns) /\ Len(columns) > 0

-----------------------------------------------------------------------------
(* Command handlers of Board: setState updaters, functions of prev.        *)

\* handleAddColumn: the column it creates; newCellId and newColumnId are fresh
newColumnSpanFromColumns(prev, newCellId, newColumnId) ==
  LET n == Len(prev.columns)
  IN  Column(newColumnId, IF n = 0 THEN ROne ELSE Rat(1, n + 1),
             <<Cell(newCellId, "new cell", n)>>)

newColumnOf(prev, newCellId, newColumnId) ==
  LET rowsCount == Len(prev.rowFracs)
      n == Len(prev.columns)
      newCell == Cell(newCellId, "new cell", rowsCount)
  IN  Column(newColumnId, IF n = 0 THEN ROne ELSE Rat(1, n + 1), <<newCell>>)

handleAddColumnNoShrink(prev, newCellId, newColumnId) ==
  LET newColumn == newColumnOf(prev, newCellId, newColumnId)
      nextCards == (newCellId :> <<>>) @@ prev.cardsByCell
  IN  IF Len(prev.columns) = 0
        THEN [prev EXCEPT !.columns = <<newColumn>>, !.cardsByCell = nextCards]
        ELSE [prev EXCEPT !.columns = normalizeFracs(prev.columns \o <<newColumn>>),
                          !.cardsByCell = nextCards]

handleAddColumn(prev, newCellId, newColumnId) ==
  LET n == Len(prev.columns)
      newColumn == newColumnOf(prev, newCellId, newColumnId)
      shrinkFactor == RSub(ROne, newColumn.frac)
      nextColumns ==
        [i \in 1..n |-> [prev.columns[i] EXCEPT !.frac = RMul(@, shrinkFactor)]]
          \o <<newColumn>>
      nextCards == (newCellId :> <<>>) @@ prev.cardsByCell
  IN  IF n = 0
        THEN [prev EXCEPT !.columns = <<newColumn>>, !.cardsByCell = nextCards]
        ELSE [prev EXCEPT !.columns = normalizeFracs(nextColumns),
                          !.cardsByCell = nextCards]

\* cardsByCell[cellId] ?? []
CardsOf(cardsByCell, cellId) ==
  IF cellId \in DOMAIN cardsByCell THEN cardsByCell[cellId] ELSE <<>>

\* handleAddCard: a card is its id
handleAddCard(prev, cellId, cardId) ==
  [prev EXCEPT !.cardsByCell =
     (cellId :> (CardsOf(prev.cardsByCell, cellId) \o <<cardId>>)) @@ @]

\* a list left without a card is taken out of the map
handleRemoveCardDropsEmptyList(prev, cellId, cardId) ==
  LET left == SelectSeq(CardsOf(prev.cardsByCell, cellId), LAMBDA card : card # cardId)
  IN  IF left = <<>>
        THEN [prev EXCEPT !.cardsByCell = [k \in DOMAIN @ \ {cellId} |-> @[k]]]
        ELSE [prev EXCEPT !.cardsByCell = (cellId :> left) @@ @]

handleRemoveCard(prev, cellId, cardId) ==
  [prev EXCEPT !.cardsByCell =
     (cellId :> SelectSeq(CardsOf(prev.cardsByCell, cellId),
                          LAMBDA card : card # cardId)) @@ @]

\* the renamed cell's content list is emptied
handleUpdateCellTitleEmptiesCards(prev, cellId, title) ==
  [prev EXCEPT
     !.columns =
       [i \in 1..Len(prev.columns) |->
          [prev.columns[i] EXCEPT !.cells =
             [j \in 1..Len(@) |->
                IF @[j].id = cellId THEN [@[j] EXCEPT !.title = title] ELSE @[j]]]],
     !.cardsByCell = (cellId :> <<>>) @@ @]

handleUpdateCellTitle(prev, cellId, title) ==
  [prev EXCEPT
     !.columns =
       [i \in 1..Len(prev.columns) |->
          [prev.columns[i] EXCEPT !.cells =
             [j \in 1..Len(@) |->
                IF @[j].id = cellId THEN [@[j] EXCEPT !.title = title] ELSE @[j]]]]]

\* delete nextCards[id]
DeleteKey(cards, id) == [k \in DOMAIN cards \ {id} |-> cards[k]]

\* the content list of the removed cell is kept
handleDeleteCellKeepsCards(prev, columnIndex, cellIndex) ==
  LET targetColumn == At(prev.columns, columnIndex)
      removedCell == SpliceTaken(targetColumn.cells, cellIndex)
      cells == SpliceOut(targetColumn.cells, cellIndex)
  IN  IF targetColumn = None THEN prev
      ELSE IF removedCell = None THEN prev
      ELSE IF Len(cells) = 0
        THEN [prev EXCEPT
                !.columns = normalizeFracs(SpliceOut(prev.columns, columnIndex))]
      ELSE [prev EXCEPT
              !.columns = SetAt(prev.columns, columnIndex,
                 [targetColumn EXCEPT
                    !.cells = absorbSpanAfterRemoval(cells, cellIndex, removedCell.span)])]

\* the span of the removed cell goes to the cell after the removed position
handleDeleteCellAbsorbBelow(prev, columnIndex, cellIndex) ==
  LET targetColumn == At(prev.columns, columnIndex)
      removedCell == SpliceTaken(targetColumn.cells, cellIndex)
      cells == SpliceOut(targetColumn.cells, cellIndex)
      nextCards == DeleteKey(prev.cardsByCell, removedCell.id)
  IN  IF targetColumn = None THEN prev
      ELSE IF removedCell = None THEN prev
      ELSE IF Len(cells) = 0
        THEN [prev EXCEPT
                !.columns = normalizeFracs(SpliceOut(prev.columns, columnIndex)),
                !.cardsByCell = nextCards]
      ELSE [prev EXCEPT
              !.columns = SetAt(prev.columns, columnIndex,
                 [targetColumn EXCEPT
                    !.cells = absorbSpanAfterRemoval(cells, cellIndex + 2, removedCell.span)]),
              !.cardsByCell = nextCards]

handleDeleteCell(prev, columnIndex, cellIndex) ==
  LET targetColumn == At(prev.columns, columnIndex)
      removedCell == SpliceTaken(targetColumn.cells, cellIndex)
      cells == SpliceOut(targetColumn.cells, cellIndex)
      nextCards == DeleteKey(prev.cardsByCell, removedCell.id)
  IN  IF targetColumn = None THEN prev
      ELSE IF removedCell = None THEN prev
      ELSE IF Len(cells) = 0
        THEN [prev EXCEPT
                !.columns = normalizeFracs(SpliceOut(prev.columns, columnIndex)),
                !.cardsByCell = nextCards]
      ELSE [prev EXCEPT
              !.columns = SetAt(prev.columns, columnIndex,
                 [targetColumn EXCEPT
                    !.cells = absorbSpanAfterRemoval(cells, cellIndex, removedCell.span)]),
              !.cardsByCell = nextCards]

\* the moved cell is inserted without being taken out first
dragSameColumnNoRemoval(cols, sourceColumnIndex, sourceIndex, destinationInfo) ==
  LET column == At(cols, sourceColumnIndex)
      movedCell == SpliceTaken(column.cells, sourceIndex)
      insertIndex == clamp(destinationInfo.insertIndex, 0, Len(column.cells))
  IN  IF movedCell = None THEN cols
      ELSE SetAt(cols, sourceColumnIndex,
                 [column EXCEPT !.cells = SpliceIn(column.cells, insertIndex, movedCell)])

\* handleDragEnd, destination column = source column: the next columns
dragSameColumn(cols, sourceColumnIndex, sourceIndex, destinationInfo) ==
  LET column == At(cols, sourceColumnIndex)
      movedCell == SpliceTaken(column.cells, sourceIndex)
      cells == SpliceOut(column.cells, sourceIndex)
      insertIndex == clamp(destinationInfo.insertIndex, 0, Len(cells))
  IN  IF movedCell = None THEN cols
      ELSE SetAt(cols, sourceColumnIndex,
                 [column EXCEPT !.cells = SpliceIn(cells, insertIndex, movedCell)])

\* the emptied source column is kept on the board
takeFromSourceKeepEmpty(cols, sourceColumnIndex, sourceIndex) ==
  LET sourceColumn == At(cols, sourceColumnIndex)
      left == SpliceOut(sourceColumn.cells, sourceIndex)
  IN  [columns |-> SetAt(cols, sourceColumnIndex, [sourceColumn EXCEPT !.cells = left]),
       removedColumn |-> FALSE]

\* the vacated span is dropped instead of absorbed
takeFromSourceNoAbsorb(cols, sourceColumnIndex, sourceIndex) ==
  LET sourceColumn == At(cols, sourceColumnIndex)
      left == SpliceOut(sourceColumn.cells, sourceIndex)
  IN  IF Len(left) = 0
        THEN [columns |-> SpliceOut(cols, sourceColumnIndex), removedColumn |-> TRUE]
        ELSE [columns |-> SetAt(cols, sourceColumnIndex,
                                [sourceColumn EXCEPT !.cells = left]),
              removedColumn |-> FALSE]

\* every cell left in the source column takes the vacated span
takeFromSourceAllAbsorb(cols, sourceColumnIndex, sourceIndex) ==
  LET sourceColumn == At(cols, sourceColumnIndex)
      movedCell == SpliceTaken(sourceColumn.cells, sourceIndex)
      left == SpliceOut(sourceColumn.cells, sourceIndex)
  IN  IF Len(left) = 0
        THEN [columns |-> SpliceOut(cols, sourceColumnIndex), removedColumn |-> TRUE]
        ELSE [columns |->
                SetAt(cols, sourceColumnIndex,
                      [sourceColumn EXCEPT
                         !.cells = [i \in 1..Len(left) |->
                                      [left[i] EXCEPT !.span = @ + movedCell.span]]]),
              removedColumn |-> FALSE]

\* handleDragEnd, cross-column: the working columns once the moved cell is
\* out of its source column, and whether that removed the column
takeFromSource(cols, sourceColumnIndex, sourceIndex) ==
  LET sourceColumn == At(cols, sourceColumnIndex)
      movedCell == SpliceTaken(sourceColumn.cells, sourceIndex)
      left == SpliceOut(sourceColumn.cells, sourceIndex)
  IN  IF Len(left) = 0
        THEN [columns |-> SpliceOut(cols, sourceColumnIndex), removedColumn |-> TRUE]
        ELSE [columns |->
                SetAt(cols, sourceColumnIndex,
                      [sourceColumn EXCEPT
                         !.cells = absorbSpanAfterRemoval(left, sourceIndex,
                                                          movedCell.span)]),
              removedColumn |-> FALSE]

\* the destination index is not shifted when the source column is removed
dragCrossColumnUnshifted(cols, rows, sourceColumnIndex, sourceIndex, destinationInfo) ==
  LET sourceColumn == At(cols, sourceColumnIndex)
      movedCell == SpliceTaken(sourceColumn.cells, sourceIndex)
      taken == takeFromSource(cols, sourceColumnIndex, sourceIndex)
      workingColumns == taken.columns
      removedColumn == taken.removedColumn
      destinationColumnIndex ==
        clamp(destinationInfo.columnIndex, 0, Max(Len(workingColumns) - 1, 0))
      targetColumn == At(workingColumns, destinationColumnIndex)
      nextCells == insertCellWithClamp(targetColumn.cells, destinationInfo.insertIndex,
                                       movedCell, rows)
      placed == SetAt(workingColumns, destinationColumnIndex,
                      [targetColumn EXCEPT !.cells = nextCells])
  IN  IF sourceColumn = None THEN cols
      ELSE IF movedCell = None THEN cols
      ELSE IF targetColumn = None THEN cols
      ELSE IF removedColumn THEN normalizeFracs(placed) ELSE placed

\* the destination index is used as it is: a move to no column is given up
dragCrossColumnUnclamped(cols, rows, sourceColumnIndex, sourceIndex, destinationInfo) ==
  LET sourceColumn == At(cols, sourceColumnIndex)
      movedCell == SpliceTaken(sourceColumn.cells, sourceIndex)
      taken == takeFromSource(cols, sourceColumnIndex, sourceIndex)
      workingColumns == taken.columns
      removedColumn == taken.removedColumn
      destinationColumnIndex ==
        IF removedColumn /\ destinationInfo.columnIndex > sourceColumnIndex
          THEN destinationInfo.columnIndex - 1
          ELSE destinationInfo.columnIndex
      targetColumn == At(workingColumns, destinationColumnIndex)
      nextCells == insertCellWithClamp(targetColumn.cells, destinationInfo.insertIndex,
                                       movedCell, rows)
      placed == SetAt(workingColumns, destinationColumnIndex,
                      [targetColumn EXCEPT !.cells = nextCells])
  IN  IF sourceColumn = None THEN cols
      ELSE IF movedCell = None THEN cols
      ELSE IF targetColumn = None THEN cols
      ELSE IF removedColumn THEN normalizeFracs(placed) ELSE placed

\* the moved cell is inserted without being taken out of its source column
dragCrossColumnCopies(cols, rows, sourceColumnIndex, sourceIndex, destinationInfo) ==
  LET sourceColumn == At(cols, sourceColumnIndex)
      movedCell == SpliceTaken(sourceColumn.cells, sourceIndex)
      destinationColumnIndex ==
        clamp(destinationInfo.columnIndex, 0, Max(Len(cols) - 1, 0))
      targetColumn == At(cols, destinationColumnIndex)
      nextCells == insertCellWithClamp(targetColumn.cells, destinationInfo.insertIndex,
                                       movedCell, rows)
  IN  IF sourceColumn = None THEN cols
      ELSE IF movedCell = None THEN cols
      ELSE IF targetColumn = None THEN cols
      ELSE SetAt(cols, destinationColumnIndex,
                 [targetColumn EXCEPT !.cells = nextCells])

\* handleDragEnd, destination column # source column: the next columns
dragCrossColumn(cols, rows, sourceColumnIndex, sourceIndex, destinationInfo) ==
  LET sourceColumn == At(cols, sourceColumnIndex)
      movedCell == SpliceTaken(sourceColumn.cells, sourceIndex)
      taken == takeFromSource(cols, sourceColumnIndex, sourceIndex)
      workingColumns == taken.columns
      removedColumn == taken.removedColumn
      shifted ==
        IF removedColumn /\ destinationInfo.columnIndex > sourceColumnIndex
          THEN destinationInfo.columnIndex - 1
          ELSE destinationInfo.columnIndex
      destinationColumnIndex == clamp(shifted, 0, Max(Len(workingColumns) - 1, 0))
      targetColumn == At(workingColumns, destinationColumnIndex)
      nextCells == insertCellWithClamp(targetColumn.cells, destinationInfo.insertIndex,
                                       movedCell, rows)
      placed == SetAt(workingColumns, destinationColumnIndex,
                      [targetColumn EXCEPT !.cells = nextCells])
  IN  IF sourceColumn = None THEN cols
      ELSE IF movedCell = None THEN cols
      ELSE IF targetColumn = None THEN cols
      ELSE IF removedColumn THEN normalizeFracs(placed) ELSE placed

\* handleDragEnd once both locators are parsed
handleDragEnd(prev, sourceColumnIndex, sourceIndex, quadrant) ==
  LET destinationInfo ==
        resolveDestination(prev.columns, quadrant, sourceColumnIndex, sourceIndex)
      rows == Len(prev.rowFracs)
  IN  IF destinationInfo = None THEN prev
      ELSE IF destinationInfo.columnIndex = sourceColumnIndex
        THEN [prev EXCEPT !.columns =
                dragSameColumn(prev.columns, sourceColumnIndex, sourceIndex,
                               destinationInfo)]
      ELSE [prev EXCEPT !.columns =
              dragCrossColumn(prev.columns, rows, sourceColumnIndex, sourceIndex,
                              destinationInfo)]

\* handleDragEnd from the DropResult: result.destination is <<>> (null) or
\* <<droppableId>>, result.source is [droppableId, index]
handleDragEndOfResult(prev, result) ==
  IF result.destination = <<>> THEN prev
  ELSE LET quadrant == parseQuadrantId(result.destination[1])
           sourceColumnIndex == parseColumnDroppableId(result.source.droppableId)
       IN  IF quadrant = None THEN prev
           ELSE IF sourceColumnIndex.isNull THEN prev
           ELSE handleDragEnd(prev, sourceColumnIndex.index, result.source.index,
                              quadrant)

-----------------------------------------------------------------------------
(* The quadrant board's variant (unnamed/part_001, line 805 onwards): its  *)
(* handleDragEnd also moves cards and takes a column droppable as the      *)
(* destination of a cell.                                                  *)

\* A card droppable id, `cards-${cellId}`, is its first six characters and
\* the rest: the rest is <<>> (the empty string) or <<id>>.
cardsDroppableId(cellId) == [prefix |-> "cards-", rest |-> <<cellId>>]

\* null, or id.slice(6), as [isNull, value]
parseCardDroppableId(id) ==
  IF id.prefix = "cards-" THEN [isNull |-> FALSE, value |-> id.rest]
  ELSE [isNull |-> TRUE, value |-> <<>>]

\* the moved card stays in its source list as well
variantDragCardKeepsSource(prev, source, destination) ==
  LET sourceCellId == parseCardDroppableId(source.droppableId)
      destinationCellId == parseCardDroppableId(destination.droppableId)
      src == sourceCellId.value[1]
      dst == destinationCellId.value[1]
      held == Holds(CardsOf(prev.cardsByCell, src), source.index)
      movedCard == At(CardsOf(prev.cardsByCell, src), source.index)
      sourceCards == CardsOf(prev.cardsByCell, src)
      withSource == (src :> sourceCards) @@ prev.cardsByCell
      targetCards == CardsOf(withSource, dst)
  IN  IF sourceCellId.isNull \/ sourceCellId.value = <<>> THEN prev
      ELSE IF destinationCellId.isNull \/ destinationCellId.value = <<>> THEN prev
      ELSE IF src = dst /\ source.index = destination.index THEN prev
      ELSE IF ~held THEN prev
      ELSE IF src = dst
        THEN [prev EXCEPT !.cardsByCell =
                (src :> SpliceIn(sourceCards,
                                 clamp(destination.index, 0, Len(sourceCards)),
                                 movedCard)) @@ prev.cardsByCell]
      ELSE [prev EXCEPT !.cardsByCell =
              (dst :> SpliceIn(targetCards,
                               clamp(destination.index, 0, Len(targetCards)),
                               movedCard)) @@ withSource]

\* handleDragEnd of the variant, type CARD
variantDragCard(prev, source, destination) ==
  LET sourceCellId == parseCardDroppableId(source.droppableId)
      destinationCellId == parseCardDroppableId(destination.droppableId)
      src == sourceCellId.value[1]
      dst == destinationCellId.value[1]
      held == Holds(CardsOf(prev.cardsByCell, src), source.index)
      movedCard == At(CardsOf(prev.cardsByCell, src), source.index)
      sourceCards == SpliceOut(CardsOf(prev.cardsByCell, src), source.index)
      withSource == (src :> sourceCards) @@ prev.cardsByCell
      targetCards == CardsOf(withSource, dst)
  IN  IF sourceCellId.isNull \/ sourceCellId.value = <<>> THEN prev
      ELSE IF destinationCellId.isNull \/ destinationCellId.value = <<>> THEN prev
      ELSE IF src = dst /\ source.index = destination.index THEN prev
      ELSE IF ~held THEN prev
      ELSE IF src = dst
        THEN [prev EXCEPT !.cardsByCell =
                (src :> SpliceIn(sourceCards,
                                 clamp(destination.index, 0, Len(sourceCards)),
                                 movedCard)) @@ prev.cardsByCell]
      ELSE [prev EXCEPT !.cardsByCell =
              (dst :> SpliceIn(targetCards,
                               clamp(destination.index, 0, Len(targetCards)),
                               movedCard)) @@ withSource]

\* the destination of a dragged cell: the resolver's for a quadrant id, the
\* column and index of the drop for a column id, None for any other id
variantDestinationInfo(prev, source, destination, sourceColumnIndex) ==
  LET quadrant == parseQuadrantId(destination.droppableId)
      columnIndex == parseColumnDroppableId(destination.droppableId)
  IN  IF quadrant # None
        THEN resolveDestination(prev.columns, quadrant, sourceColumnIndex, source.index)
      ELSE IF ~columnIndex.isNull
        THEN [columnIndex |-> columnIndex.index, insertIndex |-> destination.index]
      ELSE None

\* handleDragEnd of the variant, type CELL
variantDragCell(prev, source, destination) ==
  LET sourceColumnIndex == parseColumnDroppableId(source.droppableId)
      destinationInfo ==
        variantDestinationInfo(prev, source, destination, sourceColumnIndex.index)
      rows == Len(prev.rowFracs)
  IN  IF sourceColumnIndex.isNull THEN prev
      ELSE IF destinationInfo = None THEN prev
      ELSE IF destinationInfo.columnIndex = sourceColumnIndex.index
        THEN IF At(prev.columns, sourceColumnIndex.index) = None THEN prev
             ELSE [prev EXCEPT !.columns =
                     dragSameColumn(prev.columns, sourceColumnIndex.index,
                                    source.index, destinationInfo)]
      ELSE [prev EXCEPT !.columns =
              dragCrossColumn(prev.columns, rows, sourceColumnIndex.index,
                              source.index, destinationInfo)]

\* handleDragEnd of the variant: result.destination is <<>> (null) or
\* <<[droppableId, index]>>
variantHandleDragEnd(prev, result) ==
  IF result.destination = <<>> THEN prev
  ELSE IF result.type = "CARD"
    THEN variantDragCard(prev, result.source, result.destination[1])
  ELSE IF result.type # "CELL" THEN prev
  ELSE variantDragCell(prev, result.source, result.destination[1])

\* startColumnResize / startRowResize: what the gesture's closures capture at
\* pointer-down (size: boardRect.width or height; minPx: MIN_COL_PX or MIN_ROW_PX)
resizeClosure(index, size, minPx, fracs) ==
  [registered |-> TRUE, index |-> index, size |-> size,
   minFrac |-> RMin(Rat(1, 2), Rat(minPx, size)), initialFracs |-> fracs]

\* the second element keeps its fraction
resizedPairSecondKept(g, deltaPx) ==
  LET first == g.initialFracs[g.index + 1]
      second == g.initialFracs[g.index + 2]
      total == RAdd(first, second)
      effectiveMin == RMin(g.minFrac, RDiv(total, Rat(2, 1)))
  IN  <<RClamp(RAdd(first, Rat(deltaPx, g.size)), effectiveMin,
               RSub(total, effectiveMin)), second>>

\* the first fraction follows the pointer without a minimum
resizedPairUnclamped(g, deltaPx) ==
  LET first == g.initialFracs[g.index + 1]
      second == g.initialFracs[g.index + 2]
      nextFirst == RAdd(first, Rat(deltaPx, g.size))
  IN  <<nextFirst, RSub(RAdd(first, second), nextFirst)>>

\* the pair of fractions a pointer-move sample computes
resizedPair(g, deltaPx) ==
  LET deltaFrac == Rat(deltaPx, g.size)
      first == g.initialFracs[g.index + 1]
      second == g.initialFracs[g.index + 2]
      total == RAdd(first, second)
      effectiveMin == RMin(g.minFrac, RDiv(total, Rat(2, 1)))
      nextFirst == RClamp(RAdd(first, deltaFrac), effectiveMin,
                          RSub(total, effectiveMin))
  IN  <<nextFirst, RSub(total, nextFirst)>>

\* the second fraction is written to every column right of the boundary
columnPointerMoveSpillsRight(prev, g, deltaPx) ==
  LET pair == resizedPair(g, deltaPx)
  IN  [prev EXCEPT !.columns =
         [i \in 1..Len(prev.columns) |->
            IF i - 1 = g.index THEN [prev.columns[i] EXCEPT !.frac = pair[1]]
            ELSE IF i - 1 > g.index THEN [prev.columns[i] EXCEPT !.frac = pair[2]]
            ELSE prev.columns[i]]]

\* the sample starts from the fractions of the previous sample
columnPointerMoveCompounding(prev, g, deltaPx) ==
  LET now == [g EXCEPT !.initialFracs = Fracs(prev.columns)]
      pair == resizedPair(now, deltaPx)
  IN  [prev EXCEPT !.columns =
         [i \in 1..Len(prev.columns) |->
            IF i - 1 = g.index THEN [prev.columns[i] EXCEPT !.frac = pair[1]]
            ELSE IF i - 1 = g.index + 1 THEN [prev.columns[i] EXCEPT !.frac = pair[2]]
            ELSE prev.columns[i]]]

\* handlePointerMove of startColumnResize
columnPointerMove(prev, g, deltaPx) ==
  LET pair == resizedPair(g, deltaPx)
  IN  [prev EXCEPT !.columns =
         [i \in 1..Len(prev.columns) |->
            IF i - 1 = g.index THEN [prev.columns[i] EXCEPT !.frac = pair[1]]
            ELSE IF i - 1 = g.index + 1 THEN [prev.columns[i] EXCEPT !.frac = pair[2]]
            ELSE prev.columns[i]]]

\* only the upper row is written
rowPointerMoveUpperOnly(prev, g, deltaPx) ==
  [prev EXCEPT !.rowFracs[g.index + 1] = resizedPair(g, deltaPx)[1]]

\* handlePointerMove of startRowResize
rowPointerMove(prev, g, deltaPx) ==
  LET pair == resizedPair(g, deltaPx)
  IN  [prev EXCEPT !.rowFracs =
         [i \in 1..Len(prev.rowFracs) |->
            IF i - 1 = g.index THEN pair[1]
            ELSE IF i - 1 = g.index + 1 THEN pair[2]
            ELSE prev.rowFracs[i]]]

-----------------------------------------------------------------------------
(* The simple board: columns of cells with a height, task lists by cell.   *)

\* ids in the order createId() hands them out: column 1 with cells 2, 3;
\* column 4 with cells 5, 6, 7; column 8 with cells 9, 10; tasks 11..20
simpleCreateInitialBoard ==
  [ columns |->
      << [id |-> 1, cells |-> <<[id |-> 2, height |-> 1], [id |-> 3, height |-> 1]>>],
         [id |-> 4, cells |-> <<[id |-> 5, height |-> 1], [id |-> 6, height |-> 1],
                                [id |-> 7, height |-> 1]>>],
         [id |-> 8, cells |-> <<[id |-> 9, height |-> 1], [id |-> 10, height |-> 1]>>] >>,
    tasksByCell |->
      (2 :> <<11, 12>>) @@ (3 :> <<13>>) @@ (5 :> <<14>>) @@ (6 :> <<15, 16>>)
        @@ (7 :> <<17>>) @@ (9 :> <<18, 19>>) @@ (10 :> <<20>>) ]

\* cells.filter((cell) => cell.id !== cellId)
WithoutCellId(cells, cellId) == SelectSeq(cells, LAMBDA cell : cell.id # cellId)

\* handleDeleteCell of the simple board
simpleHandleDeleteCell(prev, columnId, cellId) ==
  [columns |->
     [i \in 1..Len(prev.columns) |->
        IF prev.columns[i].id # columnId THEN prev.columns[i]
        ELSE [prev.columns[i] EXCEPT !.cells = WithoutCellId(@, cellId)]],
   tasksByCell |-> DeleteKey(prev.tasksByCell, cellId)]

\* the content lists of the removed column's cells are kept
simpleHandleDeleteColumnKeepsTasks(prev, columnId) ==
  LET nextColumns == SelectSeq(prev.columns, LAMBDA column : column.id # columnId)
      removed == SelectSeq(prev.columns, LAMBDA column : column.id = columnId)
  IN  IF removed = <<>> THEN prev
      ELSE [columns |-> nextColumns, tasksByCell |-> prev.tasksByCell]

\* handleDeleteColumn of the simple board: removed is what find returns, as a
\* list of at most one column
simpleHandleDeleteColumn(prev, columnId) ==
  LET nextColumns == SelectSeq(prev.columns, LAMBDA column : column.id # columnId)
      removed == SelectSeq(prev.columns, LAMBDA column : column.id = columnId)
      removedColumn == Head(removed)
      nextTasks == [k \in DOMAIN prev.tasksByCell
                           \ {cell.id : cell \in Range(removedColumn.cells)}
                      |-> prev.tasksByCell[k]]
  IN  IF removed = <<>> THEN prev
      ELSE [columns |-> nextColumns, tasksByCell |-> nextTasks]

\* A droppable id of the simple board, `cells-${columnId}` or
\* `tasks-${cellId}`, is its first six characters and the rest: the rest is
\* <<>> (the empty string) or <<id>>.
DroppableId(prefix, rest) == [prefix |-> prefix, rest |-> rest]

cellsDroppableId(columnId) == DroppableId("cells-", <<columnId>>)

tasksDroppableId(cellId) == DroppableId("tasks-", <<cellId>>)

\* null, or id.slice(6), as [isNull, value]
parseCellsDroppableId(id) ==
  IF id.prefix = "cells-" THEN [isNull |-> FALSE, value |-> id.rest]
  ELSE [isNull |-> TRUE, value |-> <<>>]

parseTasksDroppableId(id) ==
  IF id.prefix = "tasks-" THEN [isNull |-> FALSE, value |-> id.rest]
  ELSE [isNull |-> TRUE, value |-> <<>>]

\* !parsed: null and the empty string are falsy
Falsy(parsed) == parsed.isNull \/ parsed.value = <<>>

\* columns.findIndex((column) => column.id === id): -1 when there is none
findIndex(cols, id) ==
  IF \A i \in 1..Len(cols) : cols[i].id # id THEN -1
  ELSE (CHOOSE i \in 1..Len(cols) :
          cols[i].id = id /\ \A j \in 1..(i - 1) : cols[j].id # id) - 1

\* handleDragEnd of the simple board, type CELL
simpleDragCell(prev, source, destination) ==
  LET sourceColumnId == parseCellsDroppableId(source.droppableId)
      destinationColumnId == parseCellsDroppableId(destination.droppableId)
      sourceColumnIndex == findIndex(prev.columns, sourceColumnId.value[1])
      destinationColumnIndex == findIndex(prev.columns, destinationColumnId.value[1])
      column == At(prev.columns, sourceColumnIndex)
      movedCell == SpliceTaken(column.cells, source.index)
      left == SpliceOut(column.cells, source.index)
      nextColumns == SetAt(prev.columns, sourceColumnIndex, [column EXCEPT !.cells = left])
      targetCells == At(nextColumns, destinationColumnIndex).cells
      insertIndex == clamp(destination.index, 0, Len(targetCells))
  IN  IF Falsy(sourceColumnId) \/ Falsy(destinationColumnId) THEN prev
      ELSE IF sourceColumnIndex = -1 \/ destinationColumnIndex = -1 THEN prev
      ELSE IF sourceColumnIndex = destinationColumnIndex
        THEN IF movedCell = None THEN prev
             ELSE [prev EXCEPT !.columns =
                     SetAt(prev.columns, sourceColumnIndex,
                           [column EXCEPT !.cells =
                              arrayMove(column.cells, source.index, destination.index)])]
      ELSE IF movedCell = None THEN prev
      ELSE [prev EXCEPT !.columns =
              SetAt(nextColumns, destinationColumnIndex,
                    [At(nextColumns, destinationColumnIndex) EXCEPT
                       !.cells = SpliceIn(targetCells, insertIndex, movedCell)])]

\* tasksByCell[cellId] ? [...tasksByCell[cellId]] : []
TasksOf(tasksByCell, cellId) ==
  IF cellId \in DOMAIN tasksByCell THEN tasksByCell[cellId] ELSE <<>>

\* handleDragEnd of the simple board, type TASK
simpleDragTask(prev, source, destination) ==
  LET sourceCellId == parseTasksDroppableId(source.droppableId)
      destinationCellId == parseTasksDroppableId(destination.droppableId)
      src == sourceCellId.value[1]
      dst == destinationCellId.value[1]
      taken == SpliceTakes(TasksOf(prev.tasksByCell, src), source.index)
      movedTask == SpliceTaken(TasksOf(prev.tasksByCell, src), source.index)
      sourceTasks == SpliceOut(TasksOf(prev.tasksByCell, src), source.index)
      withSource == (src :> sourceTasks) @@ prev.tasksByCell
      targetTasks == TasksOf(withSource, dst)
  IN  IF Falsy(sourceCellId) \/ Falsy(destinationCellId) THEN prev
      ELSE IF ~taken THEN prev
      ELSE IF src = dst
        THEN [prev EXCEPT !.tasksByCell =
                (src :> SpliceIn(sourceTasks,
                                 clamp(destination.index, 0, Len(sourceTasks)),
                                 movedTask)) @@ prev.tasksByCell]
      ELSE [prev EXCEPT !.tasksByCell =
              (dst :> SpliceIn(targetTasks,
                               clamp(destination.index, 0, Len(targetTasks)),
                               movedTask)) @@ withSource]

\* handleDragEnd of the simple board: result.destination is <<>> (null) or
\* <<[droppableId, index]>>
simpleHandleDragEnd(prev, result) ==
  IF result.destination = <<>> THEN prev
  ELSE IF result.type = "CELL"
    THEN simpleDragCell(prev, result.source, result.destination[1])
  ELSE IF result.type = "TASK"
    THEN simpleDragTask(prev, result.source, result.destination[1])
  ELSE prev

-----------------------------------------------------------------------------
(* State machine.                                                          *)

\* the constructed board with its first k cells deleted one by one
RECURSIVE FrontDeleted(_)
FrontDeleted(k) ==
  IF k = 0 THEN createInitialBoard ELSE handleDeleteCell(FrontDeleted(k - 1), 0, 0)

RECURSIVE CountCells(_)
CountCells(cols) ==
  IF cols = <<>> THEN 0 ELSE Len(Head(cols).cells) + CountCells(Tail(cols))

NoListeners == [registered |-> FALSE]

\* the board components: the quadrant board of lib/boardUtils.ts, its
\* variant in unnamed/part_001 (line 805 onwards) and the simple board
Components == {"quadrant", "variant", "simple"}

\* One of the components is mounted.  The quadrant board is as constructed,
\* or as the user left it after deleting cells from the top of the first
\* column onwards.
Init ==
  /\ mounted \in Components
  /\ \E k \in 0..CountCells(createInitialBoard.columns) :
       /\ state = FrontDeleted(k)
       /\ mounted = "simple" => k = 0
  /\ nextId = 21
  /\ colResize = NoListeners
  /\ rowResize = NoListeners
  /\ activeColumnHandle = <<>>
  /\ activeRowHandle = <<>>
  /\ simple = simpleCreateInitialBoard
  /\ last = [op |-> "init", prev |-> state]
  /\ steps = 0

AllCells(cols) == UNION {Range(col.cells) : col \in Range(cols)}

CellIds(cols) == {cell.id : cell \in AllCells(cols)}

\* locators present on the board, and stale ones: a column index one past the
\* end, and a cell index one past the end of the first column
CellLocators(cols) ==
  UNION {{<<c, i>> : i \in 0..(Len(cols[c + 1].cells) - 1)} : c \in 0..(Len(cols) - 1)}

SourceLocators(cols) == CellLocators(cols) \cup {<<Len(cols), 0>>}

TargetLocators(cols) ==
  CellLocators(cols) \cup {<<Len(cols), 0>>}
    \cup (IF cols = <<>> THEN {} ELSE {<<0, Len(cols[1].cells)>>})

AddColumn ==
  /\ mounted = "quadrant"
  /\ steps < MaxSteps
  /\ state' = handleAddColumn(state, nextId, nextId + 1)
  /\ nextId' = nextId + 2
  /\ last' = [op |-> "addColumn", prev |-> state, cellId |-> nextId,
              columnId |-> nextId + 1]
  /\ steps' = steps + 1
  /\ UNCHANGED <<mounted, simple, colResize, rowResize, activeColumnHandle, activeRowHandle>>

\* locators handed to delete-cell: those of the board, the stale ones, and a
\* negative column index and a negative cell index
DeleteLocators(cols) == TargetLocators(cols) \cup {<<-1, 0>>, <<0, -1>>}

DeleteCell ==
  /\ mounted = "quadrant"
  /\ steps < MaxSteps
  /\ \E loc \in DeleteLocators(state.columns) :
       /\ state' = handleDeleteCell(state, loc[1], loc[2])
       /\ last' = [op |-> "deleteCell", prev |-> state, columnIndex |-> loc[1],
                   cellIndex |-> loc[2]]
  /\ steps' = steps + 1
  /\ UNCHANGED <<mounted, simple, nextId, colResize, rowResize, activeColumnHandle, activeRowHandle>>

DragEnd ==
  /\ mounted = "quadrant"
  /\ steps < MaxSteps
  /\ \E src \in SourceLocators(state.columns), dst \in TargetLocators(state.columns),
        direction \in Directions :
       /\ state' = handleDragEnd(state, src[1], src[2],
                                 Quadrant(dst[1], dst[2], direction))
       /\ last' = [op |-> "dragEnd", prev |-> state, sourceColumnIndex |-> src[1],
                   sourceIndex |-> src[2],
                   quadrant |-> Quadrant(dst[1], dst[2], direction)]
  /\ steps' = steps + 1
  /\ UNCHANGED <<mounted, simple, nextId, colResize, rowResize, activeColumnHandle, activeRowHandle>>

\* a title the user types, and cell ids: those on the board and one that is not
Titles == {"renamed"}

UpdateCellTitle ==
  /\ mounted = "quadrant"
  /\ steps < MaxSteps
  /\ \E cellId \in CellIds(state.columns) \cup {0}, title \in Titles :
       /\ state' = handleUpdateCellTitle(state, cellId, title)
       /\ last' = [op |-> "updateCellTitle", prev |-> state, cellId |-> cellId,
                   title |-> title]
  /\ steps' = steps + 1
  /\ UNCHANGED <<mounted, simple, nextId, colResize, rowResize, activeColumnHandle,
                 activeRowHandle>>

\* the add-card form and the remove-card button of a cell; also for a cell
\* id that is on no board, and for a card id that is in no list
AddCard ==
  /\ mounted = "quadrant"
  /\ steps < MaxSteps
  /\ \E cellId \in CellIds(state.columns) \cup {0} :
       /\ state' = handleAddCard(state, cellId, nextId)
       /\ last' = [op |-> "addCard", prev |-> state, cellId |-> cellId,
                   cardId |-> nextId]
  /\ nextId' = nextId + 1
  /\ steps' = steps + 1
  /\ UNCHANGED <<mounted, simple, colResize, rowResize, activeColumnHandle,
                 activeRowHandle>>

RemoveCard ==
  /\ mounted = "quadrant"
  /\ steps < MaxSteps
  /\ \E cellId \in CellIds(state.columns) \cup {0} :
       \E cardId \in Range(CardsOf(state.cardsByCell, cellId)) \cup {0} :
         /\ state' = handleRemoveCard(state, cellId, cardId)
         /\ last' = [op |-> "removeCard", prev |-> state, cellId |-> cellId,
                     cardId |-> cardId]
  /\ steps' = steps + 1
  /\ UNCHANGED <<mounted, simple, nextId, colResize, rowResize, activeColumnHandle,
                 activeRowHandle>>

\* droppable ids as the library may hand them over: the ids the board
\* renders, and ids that are stale, truncated or not of the board's making
QuadId(columnPart, cellPart, directionPart) ==
  <<"quad", ":">> \o columnPart \o <<":">> \o cellPart \o <<":", directionPart>>

DestinationIds ==
  { QuadId(<<"0">>, <<"0">>, "top"),
    QuadId(<<"9">>, <<"0">>, "top"),
    QuadId(<<"-", "1">>, <<"0">>, "top"),
    QuadId(<<"x">>, <<"0">>, "top"),
    QuadId(<<"0">>, <<"x">>, "top"),
    QuadId(<<>>, <<"0">>, "top"),
    QuadId(<<"0">>, <<"0">>, "up"),
    <<"cell", ":", "0", ":", "0", ":", "top">>,
    <<"quad", ":", "0">>,
    <<"quad", ":", "0", ":", "0">>,
    <<"col", "-", "0">> }

SourceIds ==
  { <<"col", "-", "0">>, <<"col">>, <<"col", "-", "x">>,
    <<"quad", ":", "0", ":", "0", ":", "top">> }

DropResults ==
  {[destination |-> d, source |-> [droppableId |-> src, index |-> 1]] :
     d \in {<<>>} \cup {<<id>> : id \in DestinationIds}, src \in SourceIds}

\* a drag-end as the drag-and-drop library reports it
DragEndOfResult ==
  /\ mounted = "quadrant"
  /\ steps < MaxSteps
  /\ \E result \in DropResults :
       /\ state' = handleDragEndOfResult(state, result)
       /\ last' = [op |-> "dragEndOfResult", prev |-> state, result |-> result]
  /\ steps' = steps + 1
  /\ UNCHANGED <<mounted, simple, nextId, colResize, rowResize, activeColumnHandle, activeRowHandle>>

\* measured sizes of the board element (0: not measured yet) and pointer
\* displacements since pointer-down, in pixels
Widths == {0, 200, 700}
Heights == {0, 200, 400}
Deltas == {-350, 70, 350}

\* one pointer: a handle is pressed only while no gesture is in progress
PointerFree == ~colResize.registered /\ ~rowResize.registered

\* pointer-down registers the gesture whatever the size and the boundary
StartColumnResizeUnguarded ==
  /\ mounted = "quadrant"
  /\ steps < MaxSteps
  /\ PointerFree
  /\ \E index \in 0..Len(state.columns), width \in Widths :
       /\ colResize' = resizeClosure(index, width, MIN_COL_PX, Fracs(state.columns))
       /\ activeColumnHandle' = <<index>>
       /\ last' = [op |-> "startColumnResize", prev |-> state, index |-> index, size |-> width]
  /\ steps' = steps + 1
  /\ UNCHANGED <<mounted, simple, state, nextId, rowResize, activeRowHandle>>

StartColumnResize ==
  /\ mounted = "quadrant"
  /\ steps < MaxSteps
  /\ PointerFree
  /\ \E index \in 0..Len(state.columns), width \in Widths :
       /\ IF width = 0 \/ Len(state.columns) <= index + 1
            THEN UNCHANGED <<colResize, activeColumnHandle>>
            ELSE /\ colResize' = resizeClosure(index, width, MIN_COL_PX,
                                               Fracs(state.columns))
                 /\ activeColumnHandle' = <<index>>
       /\ last' = [op |-> "startColumnResize", prev |-> state, index |-> index, size |-> width]
  /\ steps' = steps + 1
  /\ UNCHANGED <<mounted, simple, state, nextId, rowResize, activeRowHandle>>

ColumnPointerMove ==
  /\ mounted = "quadrant"
  /\ colResize.registered
  /\ \E deltaPx \in Deltas :
       /\ state' = columnPointerMove(state, colResize, deltaPx)
       /\ last' = [op |-> "columnPointerMove", prev |-> state, deltaPx |-> deltaPx]
  /\ UNCHANGED <<mounted, simple, nextId, colResize, rowResize, activeColumnHandle, activeRowHandle,
                 steps>>

\* pointer-up clears the handle marker and leaves the listeners registered
ColumnPointerUpKeepsListeners ==
  /\ mounted = "quadrant"
  /\ colResize.registered
  /\ activeColumnHandle # <<>>
  /\ activeColumnHandle' = <<>>
  /\ last' = [op |-> "columnPointerUp", prev |-> state, closure |-> colResize]
  /\ UNCHANGED <<mounted, simple, state, nextId, colResize, rowResize, activeRowHandle, steps>>

ColumnPointerUp ==
  /\ mounted = "quadrant"
  /\ colResize.registered
  /\ colResize' = NoListeners
  /\ activeColumnHandle' = <<>>
  /\ last' = [op |-> "columnPointerUp", prev |-> state, closure |-> colResize]
  /\ UNCHANGED <<mounted, simple, state, nextId, rowResize, activeRowHandle, steps>>

StartRowResize ==
  /\ mounted = "quadrant"
  /\ steps < MaxSteps
  /\ PointerFree
  /\ \E index \in 0..Len(state.rowFracs), height \in Heights :
       /\ IF height = 0 \/ Len(state.rowFracs) <= index + 1
            THEN UNCHANGED <<rowResize, activeRowHandle>>
            ELSE /\ rowResize' = resizeClosure(index, height, MIN_ROW_PX,
                                               state.rowFracs)
                 /\ activeRowHandle' = <<index>>
       /\ last' = [op |-> "startRowResize", prev |-> state, index |-> index, size |-> height]
  /\ steps' = steps + 1
  /\ UNCHANGED <<mounted, simple, state, nextId, colResize, activeColumnHandle>>

RowPointerMove ==
  /\ mounted = "quadrant"
  /\ rowResize.registered
  /\ \E deltaPx \in Deltas :
       /\ state' = rowPointerMove(state, rowResize, deltaPx)
       /\ last' = [op |-> "rowPointerMove", prev |-> state, deltaPx |-> deltaPx]
  /\ UNCHANGED <<mounted, simple, nextId, colResize, rowResize, activeColumnHandle, activeRowHandle,
                 steps>>

RowPointerUp ==
  /\ mounted = "quadrant"
  /\ rowResize.registered
  /\ rowResize' = NoListeners
  /\ activeRowHandle' = <<>>
  /\ last' = [op |-> "rowPointerUp", prev |-> state, closure |-> rowResize]
  /\ UNCHANGED <<mounted, simple, state, nextId, colResize, activeColumnHandle, steps>>

\* the simple board's delete-cell button, for a column id and a cell id of
\* the board
SimpleDeleteCell ==
  /\ mounted = "simple"
  /\ steps < MaxSteps
  /\ \E column \in Range(simple.columns),
        cellId \in UNION {{cell.id : cell \in Range(col.cells)} :
                           col \in Range(simple.columns)} :
       /\ simple' = simpleHandleDeleteCell(simple, column.id, cellId)
       /\ last' = [op |-> "simpleDeleteCell", prev |-> state, prevSimple |-> simple,
                   columnId |-> column.id, cellId |-> cellId]
  /\ steps' = steps + 1
  /\ UNCHANGED <<mounted, state, nextId, colResize, rowResize, activeColumnHandle,
                 activeRowHandle>>

\* the simple board's delete-column button, for a column id of the board and
\* for one that names no column
SimpleDeleteColumn ==
  /\ mounted = "simple"
  /\ steps < MaxSteps
  /\ \E columnId \in {column.id : column \in Range(simple.columns)} \cup {0} :
       /\ simple' = simpleHandleDeleteColumn(simple, columnId)
       /\ last' = [op |-> "simpleDeleteColumn", prev |-> state, prevSimple |-> simple,
                   columnId |-> columnId]
  /\ steps' = steps + 1
  /\ UNCHANGED <<mounted, state, nextId, colResize, rowResize, activeColumnHandle,
                 activeRowHandle>>

\* one end of a drag: a droppable id and an index in it
DragEndpoint(droppableId, index) == [droppableId |-> droppableId, index |-> index]

\* drags of the simple board: of the first or of no cell of a column, of the
\* first or of no task of a cell, from and to droppables that are on the
\* board, stale (id 0), empty of id or of the other kind
SimpleDropResults ==
  {[type |-> "CELL", source |-> src, destination |-> dst] :
     src \in {DragEndpoint(id, i) :
                id \in {cellsDroppableId(1), cellsDroppableId(0),
                        DroppableId("cells-", <<>>), tasksDroppableId(2)},
                i \in {0, 2}},
     dst \in {<<>>, <<DragEndpoint(cellsDroppableId(1), 5)>>,
              <<DragEndpoint(cellsDroppableId(4), 0)>>,
              <<DragEndpoint(cellsDroppableId(4), 5)>>,
              <<DragEndpoint(cellsDroppableId(0), 0)>>,
              <<DragEndpoint(DroppableId("cells-", <<>>), 0)>>}}
  \cup
  {[type |-> "TASK", source |-> src, destination |-> dst] :
     src \in {DragEndpoint(id, i) :
                id \in {tasksDroppableId(2), tasksDroppableId(0),
                        DroppableId("tasks-", <<>>), cellsDroppableId(1)},
                i \in {0, 2}},
     dst \in {<<>>, <<DragEndpoint(tasksDroppableId(2), 5)>>,
              <<DragEndpoint(tasksDroppableId(3), 0)>>,
              <<DragEndpoint(tasksDroppableId(3), 5)>>,
              <<DragEndpoint(tasksDroppableId(0), 0)>>,
              <<DragEndpoint(DroppableId("tasks-", <<>>), 0)>>}}

\* a drag-end on the simple board
SimpleDragEnd ==
  /\ mounted = "simple"
  /\ steps < MaxSteps
  /\ \E result \in SimpleDropResults :
       /\ simple' = simpleHandleDragEnd(simple, result)
       /\ last' = [op |-> "simpleDragEnd", prev |-> state, prevSimple |-> simple,
                   result |-> result]
  /\ steps' = steps + 1
  /\ UNCHANGED <<mounted, state, nextId, colResize, rowResize, activeColumnHandle,
                 activeRowHandle>>

SimpleCommand == SimpleDeleteCell \/ SimpleDragEnd \/ SimpleDeleteColumn

\* card drags of the variant: of the first or of no card of a cell, to card
\* droppables on the board, stale (id 0) or empty of id
VariantCardResults ==
  {[type |-> "CARD", source |-> src, destination |-> dst] :
     src \in {DragEndpoint(id, i) :
                id \in {cardsDroppableId(4), cardsDroppableId(9), cardsDroppableId(0)},
                i \in {0, 2}},
     dst \in {<<>>, <<DragEndpoint(cardsDroppableId(4), 0)>>,
              <<DragEndpoint(cardsDroppableId(4), 5)>>,
              <<DragEndpoint(cardsDroppableId(10), 0)>>,
              <<DragEndpoint(cardsDroppableId(10), 5)>>,
              <<DragEndpoint(cardsDroppableId(0), 0)>>,
              <<DragEndpoint([prefix |-> "cards-", rest |-> <<>>], 0)>>}}

\* cell drags of the variant: of the first or second cell of a column, to a
\* column on the board, to a column index beyond the last one, or to a
\* quadrant
VariantCellResults ==
  {[type |-> "CELL", source |-> src, destination |-> dst] :
     src \in {DragEndpoint(id, i) :
                id \in {<<"col", "-", "0">>, <<"col", "-", "1">>, <<"col">>},
                i \in {0, 1}},
     dst \in {<<>>, <<DragEndpoint(<<"col", "-", "0">>, 0)>>,
              <<DragEndpoint(<<"col", "-", "1">>, 1)>>,
              <<DragEndpoint(<<"col", "-", "9">>, 0)>>,
              <<DragEndpoint(<<"col", "-", "9">>, 5)>>,
              <<DragEndpoint(QuadId(<<"1">>, <<"0">>, "top"), 0)>>}}

\* a drag-end on the variant; a card drag also records the content map it
\* found
VariantDragEnd ==
  /\ mounted = "variant"
  /\ steps < MaxSteps
  /\ \/ \E result \in VariantCardResults :
          /\ state' = variantHandleDragEnd(state, result)
          /\ last' = [op |-> "variantDragEnd", prev |-> state, result |-> result,
                      cardsByCell |-> state.cardsByCell]
     \/ \E result \in VariantCellResults :
          /\ state' = variantHandleDragEnd(state, result)
          /\ last' = [op |-> "variantDragEnd", prev |-> state, result |-> result]
  /\ steps' = steps + 1
  /\ UNCHANGED <<mounted, simple, nextId, colResize, rowResize, activeColumnHandle,
                 activeRowHandle>>

VariantCommand == VariantDragEnd

Command ==
  \/ AddColumn \/ DeleteCell \/ DragEnd \/ DragEndOfResult \/ UpdateCellTitle
  \/ AddCard \/ RemoveCard

Gesture ==
  \/ StartColumnResize \/ ColumnPointerMove \/ ColumnPointerUp
  \/ StartRowResize \/ RowPointerMove \/ RowPointerUp

\* every event the quadrant board of lib/boardUtils.ts handles
NextQuadrant == Command \/ Gesture

\* every event the mounted component handles, in any order
Next == Command \/ Gesture \/ VariantCommand \/ SimpleCommand

Spec == Init /\ [][Next]_vars

\* commands arrive between gestures only: each resize gesture runs from
\* pointer-down to pointer-up with no other command in between
NextSeq == (PointerFree /\ Command) \/ Gesture \/ VariantCommand \/ SimpleCommand

SpecSeq == Init /\ [][NextSeq]_vars

\* the pointer is released in the end: a pending pointer-up is delivered
SpecReleased ==
  Init /\ [][Next]_vars /\ WF_vars(ColumnPointerUp) /\ WF_vars(RowPointerUp)

\* sequences of length 1..n over a set
RECURSIVE SeqsUpTo(_, _)
SeqsUpTo(S, n) ==
  IF n = 0 THEN {} ELSE SeqsUpTo(S, n - 1) \cup [1..n -> S]

\* column fracs and cell spans handed to the layout functions: any numbers
FracValues == {Rat(-1, 4), RZero, Rat(1, 3), Rat(1, 2), Rat(3, 2)}
SpanValues == {RZero, Rat(1, 2), ROne, Rat(3, 2), Rat(3, 1)}

\* column lists of one cell each, the empty list among them, and cell lists,
\* with ids 1, 2, ... in order
ColumnLists ==
  {[i \in 1..Len(fracs) |-> Column(i, fracs[i], <<Cell(10 + i, "cell", 1)>>)] :
     fracs \in SeqsUpTo(FracValues, MaxColumns) \cup {<<>>}}

CellLists ==
  {[i \in 1..Len(spans) |-> Cell(i, "cell", spans[i])] :
     spans \in SeqsUpTo(SpanValues, MaxCells)}

\* The layout functions on their own: no component is mounted, and an
\* argument list is at hand.  preserveIndex -1 stands for an absent one.
InitLayout ==
  /\ mounted = "none"
  /\ state = createInitialBoard
  /\ nextId = 21
  /\ colResize = NoListeners
  /\ rowResize = NoListeners
  /\ activeColumnHandle = <<>>
  /\ activeRowHandle = <<>>
  /\ simple = simpleCreateInitialBoard
  /\ steps = 0
  /\ \/ \E columns \in ColumnLists :
          last = [op |-> "columns", prev |-> state, columns |-> columns]
     \/ \E cells \in CellLists, rows \in 1..MaxRows :
          \E preserveIndex \in -1..Len(cells) :
            last = [op |-> "cells", prev |-> state, cells |-> cells, rows |-> rows,
                    preserveIndex |-> preserveIndex]

\* the columns are passed on without the call
NormalizeFracsLeftOut ==
  /\ last.op = "columns"
  /\ last' = [op |-> "normalizeFracs", prev |-> state, columns |-> last.columns,
              result |-> last.columns]
  /\ UNCHANGED <<mounted, state, nextId, colResize, rowResize, activeColumnHandle,
                 activeRowHandle, simple, steps>>

\* the call normalizeFracs(columns)
NormalizeFracs ==
  /\ last.op = "columns"
  /\ last' = [op |-> "normalizeFracs", prev |-> state, columns |-> last.columns,
              result |-> normalizeFracs(last.columns)]
  /\ UNCHANGED <<mounted, state, nextId, colResize, rowResize, activeColumnHandle,
                 activeRowHandle, simple, steps>>

\* the spans are rounded and raised to 1, and the total is left as it is
ClampSpansToRowsRoundOnly ==
  /\ last.op = "cells"
  /\ last' = [op |-> "clampSpansToRows", prev |-> state, cells |-> last.cells,
              rows |-> last.rows, preserveIndex |-> last.preserveIndex,
              result |-> [i \in 1..Len(last.cells) |->
                            [last.cells[i] EXCEPT !.span = Max(1, Round(@))]]]
  /\ UNCHANGED <<mounted, state, nextId, colResize, rowResize, activeColumnHandle,
                 activeRowHandle, simple, steps>>

\* the last cell takes the whole difference to rows, whatever that leaves it
ClampSpansToRowsLastTakesAll ==
  /\ last.op = "cells"
  /\ last' = [op |-> "clampSpansToRows", prev |-> state, cells |-> last.cells,
              rows |-> last.rows, preserveIndex |-> last.preserveIndex,
              result |-> AddSpan(roundSpans(last.cells), Len(last.cells) - 1,
                                 last.rows - sumSpans(roundSpans(last.cells)))]
  /\ UNCHANGED <<mounted, state, nextId, colResize, rowResize, activeColumnHandle,
                 activeRowHandle, simple, steps>>

\* the preserveIndex is not passed on
ClampSpansToRowsNoPreserve ==
  /\ last.op = "cells"
  /\ last' = [op |-> "clampSpansToRows", prev |-> state, cells |-> last.cells,
              rows |-> last.rows, preserveIndex |-> last.preserveIndex,
              result |-> clampSpansToRows(roundSpans(last.cells), last.rows, -1)]
  /\ UNCHANGED <<mounted, state, nextId, colResize, rowResize, activeColumnHandle,
                 activeRowHandle, simple, steps>>

\* the call clampSpansToRows(cells, rows, preserveIndex)
ClampSpansToRows ==
  /\ last.op = "cells"
  /\ last' = [op |-> "clampSpansToRows", prev |-> state, cells |-> last.cells,
              rows |-> last.rows, preserveIndex |-> last.preserveIndex,
              result |-> clampSpansToRows(roundSpans(last.cells), last.rows,
                                          last.preserveIndex)]
  /\ UNCHANGED <<mounted, state, nextId, colResize, rowResize, activeColumnHandle,
                 activeRowHandle, simple, steps>>

\* the cell handed to insertCellWithClamp: a moved cell of span 1 or 3
InsertedCells == {Cell(9, "moved", 1), Cell(9, "moved", 3)}

\* the call insertCellWithClamp(cells, insertIndex, newCell, rows) on cells of
\* integer spans, for an index below 0, in range or past the end
InsertCellWithClamp ==
  /\ last.op = "cells"
  /\ \E insertIndex \in -2..(Len(last.cells) + 2), newCell \in InsertedCells :
       last' = [op |-> "insertCellWithClamp", prev |-> state,
                cells |-> roundSpans(last.cells), insertIndex |-> insertIndex,
                newCell |-> newCell, rows |-> last.rows,
                result |-> insertCellWithClamp(roundSpans(last.cells), insertIndex,
                                               newCell, last.rows)]
  /\ UNCHANGED <<mounted, state, nextId, colResize, rowResize, activeColumnHandle,
                 activeRowHandle, simple, steps>>

NextLayout == NormalizeFracs \/ ClampSpansToRows \/ InsertCellWithClamp

SpecLayout == InitLayout /\ [][NextLayout]_vars

\* the board with a column-resize gesture begun on it: pointer-down on a
\* boundary between two columns of a measured board has been handled
InitInGesture ==
  /\ mounted = "quadrant"
  /\ \E k \in 0..CountCells(createInitialBoard.columns), width \in Widths \ {0} :
       /\ state = FrontDeleted(k)
       /\ \E index \in 0..(Len(state.columns) - 2) :
            /\ colResize = resizeClosure(index, width, MIN_COL_PX, Fracs(state.columns))
            /\ activeColumnHandle = <<index>>
            /\ last = [op |-> "startColumnResize", prev |-> state, index |-> index,
                       size |-> width]
  /\ nextId = 21
  /\ rowResize = NoListeners
  /\ activeRowHandle = <<>>
  /\ simple = simpleCreateInitialBoard
  /\ steps = 0

SpecInGesture == InitInGesture /\ [][NextQuadrant]_vars

-----------------------------------------------------------------------------
(* Vocabulary of the properties.                                           *)

Columns == state.columns


\* the drag-end handled last: its resolved destination and the cell it took
LastDestination ==
  resolveDestination(last.prev.columns, last.quadrant, last.sourceColumnIndex,
                     last.sourceIndex)

LastDragged ==
  IF At(last.prev.columns, last.sourceColumnIndex) = None THEN None
  ELSE SpliceTaken(At(last.prev.columns, last.sourceColumnIndex).cells,
                   last.sourceIndex)

\* the last event was a drag-end that moved a cell
Moved ==
  /\ last.op = "dragEnd"
  /\ LastDestination # None
  /\ LastDragged # None

SameColumnMove == Moved /\ LastDestination.columnIndex = last.sourceColumnIndex

CrossColumnMove == Moved /\ LastDestination.columnIndex # last.sourceColumnIndex

\* the column with this id, as a set of at most one column
ColumnOfId(cols, id) == {col \in Range(cols) : col.id = id}

\* where the cell with this id sits: the set of its <<column id, index>>
PlacesOf(cols, cellId) ==
  {<<cols[loc[1] + 1].id, loc[2]>> : loc \in
     {l \in CellLocators(cols) : cols[l[1] + 1].cells[l[2] + 1].id = cellId}}

FracsSumToOne(cols) == cols # <<>> => RSum(Fracs(cols)) = ROne

-----------------------------------------------------------------------------
(* Invariants of the data model.                                           *)

\* C1 (I3): in every reachable state every column's cell spans sum to the
\* number of rows, Len(rowFracs).
C1_SpanTotalsEqualRows ==
  \A col \in Range(Columns) : sumSpans(col.cells) = Len(state.rowFracs)

\* C2 (I5): in every reachable state every column holds at least one cell; a
\* command that takes the last cell out of a column removes the column.
C2_NoEmptyColumn ==
  /\ \A col \in Range(Columns) : Len(col.cells) >= 1
  /\ last.op \in {"deleteCell", "dragEnd"} =>
       \A col \in Range(last.prev.columns) :
         (CellIds(<<col>>) \cap CellIds(Columns) = {}) =>
            ColumnOfId(Columns, col.id) = {}

\* C2 witness: a cross-column drag took the only cell of a column, and the
\* column is gone from the board.
C2_Witness ==
  /\ CrossColumnMove
  /\ Len(At(last.prev.columns, last.sourceColumnIndex).cells) = 1
  /\ Len(Columns) = Len(last.prev.columns) - 1
  /\ ColumnOfId(Columns, At(last.prev.columns, last.sourceColumnIndex).id) = {}

\* C3 (I1): when commands arrive between complete resize gestures, the
\* column fracs sum to 1 on every non-empty board and each frac is positive.
C3_ColumnFracsSumToOne ==
  /\ FracsSumToOne(Columns)
  /\ \A col \in Range(Columns) : RLt(RZero, col.frac)

\* C3 witness: a column-resize gesture has ended after changing two fracs.
C3_Witness ==
  /\ last.op = "columnPointerUp"
  /\ Fracs(Columns) # last.closure.initialFracs
  /\ RSum(Fracs(Columns)) = ROne

\* C4 (I4): in every reachable state every cell's span is an integer >= 1.
C4_SpansAtLeastOne ==
  \A cell \in AllCells(Columns) : cell.span \in Nat /\ cell.span >= 1

\* C4 witness: a drag has put a cell into a column that already had as many
\* cells as there are rows.
C4_Witness ==
  /\ CrossColumnMove
  /\ \E col \in Range(Columns) :
       /\ Len(col.cells) > Len(state.rowFracs)
       /\ LastDragged.id \in {cell.id : cell \in Range(col.cells)}
       /\ \A cell \in Range(col.cells) : cell.span >= 1

\* C5 (I2): only a row-resize move sample modifies rowFracs; the row count
\* stays that of the initial board and the entries sum to 1.
C5_RowFracs ==
  /\ last.op # "rowPointerMove" => state.rowFracs = last.prev.rowFracs
  /\ Len(state.rowFracs) = Len(INITIAL_ROWS)
  /\ RSum(state.rowFracs) = ROne

\* C5 witness: a row-resize move sample has changed two row fracs.
C5_Witness ==
  /\ last.op = "rowPointerMove"
  /\ state.rowFracs # last.prev.rowFracs

-----------------------------------------------------------------------------
(* Drag-move properties.                                                   *)

Count(seq, x) == Cardinality({i \in DOMAIN seq : seq[i] = x})

SameMultiset(a, b) ==
  /\ Len(a) = Len(b)
  /\ \A x \in Range(a) \cup Range(b) : Count(a, x) = Count(b, x)

\* the span total of the column with this id; 0 when the board has no such column
SpanOfColumn(cols, id) ==
  IF ColumnOfId(cols, id) = {} THEN 0
  ELSE sumSpans((CHOOSE col \in ColumnOfId(cols, id) : TRUE).cells)

LastSourceColumn == At(last.prev.columns, last.sourceColumnIndex)

LastDestinationColumn == At(last.prev.columns, LastDestination.columnIndex)

CombinedSpan(cols) ==
  SpanOfColumn(cols, LastSourceColumn.id) + SpanOfColumn(cols, LastDestinationColumn.id)

\* C6 as stated: a cross-column drag-move changes the combined span total of
\* the source and destination columns by exactly the moved cell's span.
C6_CombinedSpanChangesByMovedSpan ==
  CrossColumnMove =>
    Abs(CombinedSpan(Columns) - CombinedSpan(last.prev.columns)) = LastDragged.span

\* C6 amended: a cross-column drag-move carries no span across: a surviving
\* source column keeps its span total, an emptied source column is deleted,
\* and the destination column's total after the move is the row count (its
\* cell count when it holds more cells than there are rows).
C6_SpanReflowOnMove ==
  CrossColumnMove =>
    LET src == LastSourceColumn
        dst == LastDestinationColumn
        dstAfter == CHOOSE col \in ColumnOfId(Columns, dst.id) : TRUE
    IN  /\ IF Len(src.cells) = 1
             THEN ColumnOfId(Columns, src.id) = {}
             ELSE SpanOfColumn(Columns, src.id) = sumSpans(src.cells)
        /\ ColumnOfId(Columns, dst.id) # {}
        /\ Len(dstAfter.cells) = Len(dst.cells) + 1
        /\ sumSpans(dstAfter.cells) = Max(Len(state.rowFracs), Len(dstAfter.cells))

\* C6 witness: a cell of span 1 moved between two surviving columns and the
\* combined span total of the two did not change.
C6_Witness ==
  /\ CrossColumnMove
  /\ Len(LastSourceColumn.cells) > 1
  /\ LastDragged.span = 1
  /\ CombinedSpan(Columns) = CombinedSpan(last.prev.columns)
  /\ CombinedSpan(Columns) = 2 * Len(state.rowFracs)

\* C7: a drag-move whose resolved destination column is the source column
\* changes only the order of that column's cells: its multiset of (id, span)
\* cells, every other column, every frac and the content map are unchanged;
\* arrayMove (the simple board's same-column move) permutes likewise.
C7_SameColumnReorder ==
  SameColumnMove =>
    LET sc == last.sourceColumnIndex
        before == last.prev.columns
    IN  /\ Len(Columns) = Len(before)
        /\ \A j \in 0..(Len(before) - 1) :
             IF j = sc
               THEN /\ At(Columns, j).id = At(before, j).id
                    /\ At(Columns, j).frac = At(before, j).frac
                    /\ SameMultiset(At(Columns, j).cells, At(before, j).cells)
               ELSE At(Columns, j) = At(before, j)
        /\ state.cardsByCell = last.prev.cardsByCell
        /\ state.rowFracs = last.prev.rowFracs
        /\ \A to \in -1..(Len(At(before, sc).cells) + 1) :
             SameMultiset(arrayMove(At(before, sc).cells, last.sourceIndex, to),
                          At(before, sc).cells)

\* C7 witness: a same-column drag changed the order of a column's cells.
C7_Witness ==
  /\ SameColumnMove
  /\ Columns # last.prev.columns
  /\ At(Columns, last.sourceColumnIndex).cells
       # At(last.prev.columns, last.sourceColumnIndex).cells

\* the cell a quadrant locator names on the board before the drag, or None
LastTarget ==
  IF At(last.prev.columns, last.quadrant.columnIndex) = None THEN None
  ELSE At(At(last.prev.columns, last.quadrant.columnIndex).cells,
          last.quadrant.cellIndex)

\* the dragged cell sits at offset d from the target cell, in the column that
\* held the target before the drag
DraggedBesideTarget(d) ==
  \E col \in ColumnOfId(Columns, At(last.prev.columns, last.quadrant.columnIndex).id) :
    \E i \in 0..(Len(col.cells) - 1) :
      /\ At(col.cells, i).id = LastTarget.id
      /\ At(col.cells, i + d) # None
      /\ At(col.cells, i + d).id = LastDragged.id

TopBottomDrop ==
  /\ Moved
  /\ last.quadrant.direction \in {"top", "bottom"}
  /\ LastTarget # None
  /\ LastTarget.id # LastDragged.id

\* C8: after a drag-end on the top (bottom) quadrant of an existing cell T
\* other than the dragged cell, the dragged cell is in T's column immediately
\* before (after) T.
C8_TopBottomPlacement ==
  TopBottomDrop =>
    IF last.quadrant.direction = "top" THEN DraggedBesideTarget(-1)
    ELSE DraggedBesideTarget(1)

\* C8 witnesses, one per source position named by the claim: same column
\* above T, same column below T, another column, another column that the
\* move deletes.
C8_Witness ==
  /\ TopBottomDrop
  /\ last.quadrant.direction = "bottom"
  /\ last.sourceColumnIndex = last.quadrant.columnIndex
  /\ last.sourceIndex < last.quadrant.cellIndex
  /\ DraggedBesideTarget(1)

C8_WitnessDeletedSource ==
  /\ TopBottomDrop
  /\ last.quadrant.direction = "top"
  /\ last.sourceColumnIndex < last.quadrant.columnIndex
  /\ Len(LastSourceColumn.cells) = 1
  /\ Len(Columns) = Len(last.prev.columns) - 1
  /\ DraggedBesideTarget(-1)

\* what C9 says the resolver selects for a left or right quadrant of (c, i)
SideTarget(cols, quadrant) ==
  LET c == quadrant.columnIndex
      i == quadrant.cellIndex
  IN  IF quadrant.direction = "left"
        THEN IF c = 0 THEN [columnIndex |-> c, insertIndex |-> i]
             ELSE [columnIndex |-> c - 1,
                   insertIndex |-> clamp(i, 0, Len(cols[c].cells))]
        ELSE IF c = Len(cols) - 1 THEN [columnIndex |-> c, insertIndex |-> i + 1]
             ELSE [columnIndex |-> c + 1,
                   insertIndex |-> clamp(i, 0, Len(cols[c + 2].cells))]

SideDrop ==
  /\ last.op = "dragEnd"
  /\ last.quadrant.direction \in {"left", "right"}
  /\ LastTarget # None

\* C9: for a left (right) quadrant of a cell at (c, i) the resolver selects,
\* before the same-column correction, column c-1 (c+1) at index
\* clamp(i, 0, cells of that column); column c at index i for a left drop on
\* the first column and column c at index i+1 for a right drop on the last
\* column; the correction then lowers the index by one exactly when the
\* selected column is the source column and the index is past the source.
C9_LeftRightResolution ==
  SideDrop =>
    LET want == SideTarget(last.prev.columns, last.quadrant)
        corrected ==
          IF want.columnIndex = last.sourceColumnIndex
               /\ want.insertIndex > last.sourceIndex
            THEN [want EXCEPT !.insertIndex = @ - 1] ELSE want
    IN  /\ resolveTarget(last.prev.columns, last.quadrant) = want
        /\ LastDestination = corrected

\* C9 witness: a right drop on a cell of the last column fell back to that
\* column, one index past the target.
C9_Witness ==
  /\ SideDrop
  /\ LastDragged # None
  /\ last.quadrant.direction = "right"
  /\ last.quadrant.columnIndex = Len(last.prev.columns) - 1
  /\ last.sourceColumnIndex # last.quadrant.columnIndex
  /\ PlacesOf(Columns, LastDragged.id) =
       {<<At(last.prev.columns, last.quadrant.columnIndex).id,
          last.quadrant.cellIndex + 1>>}

-----------------------------------------------------------------------------
(* Add column.                                                             *)

\* C10: with n >= 1 columns whose fracs sum to 1, add-column appends a last
\* column of one cell of span == row count and frac 1/(n+1), multiplies every
\* existing frac by n/(n+1), and the n+1 fracs sum to 1; order, ids and cells
\* of the existing columns are unchanged. With n = 0 the new frac is 1.
C10_AddColumn ==
  last.op = "addColumn" =>
    LET before == last.prev.columns
        n == Len(before)
        new == Columns[n + 1]
    IN  /\ Len(Columns) = n + 1
        /\ new.id = last.columnId
        /\ new.cells = <<Cell(last.cellId, "new cell", Len(state.rowFracs))>>
        /\ \A i \in 1..n : /\ Columns[i].id = before[i].id
                           /\ Columns[i].cells = before[i].cells
        /\ n = 0 => new.frac = ROne
        /\ (n >= 1 /\ RSum(Fracs(before)) = ROne) =>
             /\ new.frac = Rat(1, n + 1)
             /\ \A i \in 1..n :
                  /\ Columns[i].frac = RMul(before[i].frac, Rat(n, n + 1))
                  /\ RLe(RZero, Columns[i].frac)
             /\ RSum(Fracs(Columns)) = ROne

\* C10 witness: a fourth column was added to fracs 0.34, 0.33, 0.33.
C10_Witness ==
  /\ last.op = "addColumn"
  /\ Fracs(last.prev.columns) = <<Rat(34, 100), Rat(33, 100), Rat(33, 100)>>
  /\ Len(Columns) = 4
  /\ Columns[4].frac = Rat(1, 4)
  /\ Columns[1].frac = Rat(51, 200)

\* C10 witness: a column was added to the empty board.
C10_WitnessEmptyBoard ==
  /\ last.op = "addColumn"
  /\ last.prev.columns = <<>>
  /\ Fracs(Columns) = <<ROne>>

-----------------------------------------------------------------------------
(* Delete cell.                                                            *)

\* the column and the cell a delete-cell command named, on the board before it
LastDeleteColumn == At(last.prev.columns, last.columnIndex)

LastDeleteCell ==
  IF LastDeleteColumn = None \/ last.cellIndex < 0 THEN None
  ELSE At(LastDeleteColumn.cells, last.cellIndex)

\* the last event deleted an existing cell of a column that keeps a cell
DeletedFromSharedColumn ==
  /\ last.op = "deleteCell"
  /\ LastDeleteCell # None
  /\ Len(LastDeleteColumn.cells) >= 2

\* C11: deleting the cell at index i of a column with at least two cells
\* adds its span to the cell that preceded it (to the new first cell when
\* i = 0), changes no other span, id or position, keeps the column's span
\* sum (so it stays the row count), and changes no column frac.
C11_DeleteCellAbsorption ==
  DeletedFromSharedColumn =>
    LET i == last.cellIndex
        c == last.columnIndex
        before == LastDeleteColumn.cells
        removed == LastDeleteCell
        left == SpliceOut(before, i)
        heir == IF i = 0 THEN 0 ELSE i - 1
        after == At(Columns, c).cells
    IN  /\ Len(Columns) = Len(last.prev.columns)
        /\ Len(after) = Len(before) - 1
        /\ \A j \in 0..(Len(after) - 1) :
             /\ At(after, j).id = At(left, j).id
             /\ At(after, j).span =
                  IF j = heir THEN At(left, j).span + removed.span
                  ELSE At(left, j).span
        /\ sumSpans(after) = sumSpans(before)
        /\ sumSpans(before) = Len(state.rowFracs) => sumSpans(after) = Len(state.rowFracs)
        /\ Fracs(Columns) = Fracs(last.prev.columns)
        /\ \A j \in 0..(Len(Columns) - 1) :
             j # c => At(Columns, j) = At(last.prev.columns, j)

\* C11 witness: spans [1, 2] with 3 rows, delete index 0, gives [3].
C11_Witness ==
  /\ DeletedFromSharedColumn
  /\ last.cellIndex = 0
  /\ [j \in 1..2 |-> LastDeleteColumn.cells[j].span] = <<1, 2>>
  /\ Len(state.rowFracs) = 3
  /\ Len(At(Columns, last.columnIndex).cells) = 1
  /\ At(Columns, last.columnIndex).cells[1].span = 3

\* C11 witness: a cell below the first one was deleted and the cell above
\* it took its span.
C11_WitnessAbove ==
  /\ DeletedFromSharedColumn
  /\ last.cellIndex >= 1
  /\ At(At(Columns, last.columnIndex).cells, last.cellIndex - 1).span =
       At(LastDeleteColumn.cells, last.cellIndex - 1).span + LastDeleteCell.span

-----------------------------------------------------------------------------
(* Drops that name nothing on the board.                                   *)

\* the quadrant and the source of the drag-end handled last, for either way
\* the model delivers a drag-end; None when the locators did not parse
LastQuadrant ==
  IF last.op = "dragEnd" THEN last.quadrant
  ELSE IF last.result.destination = <<>> THEN None
  ELSE parseQuadrantId(last.result.destination[1])

LastSourceParsed ==
  last.op = "dragEnd" \/ ~parseColumnDroppableId(last.result.source.droppableId).isNull

\* the last event was a drag-end whose locators parsed and whose quadrant
\* names a column index the board did not have
StaleColumnDrop ==
  /\ last.op \in {"dragEnd", "dragEndOfResult"}
  /\ LastQuadrant # None
  /\ LastSourceParsed
  /\ At(last.prev.columns, LastQuadrant.columnIndex) = None

\* C12: a drag-end whose quadrant locator names a column index that does
\* not exist on the board resolves to no destination and returns the board
\* unchanged.
C12_StaleColumnDropIsNoOp ==
  StaleColumnDrop =>
    /\ resolveDestination(last.prev.columns, LastQuadrant, 0, 0) = None
    /\ state = last.prev

\* C12 witness: a cell that exists was dropped on a quadrant of the column
\* index one past the last column, and the board is as before.
C12_Witness ==
  /\ StaleColumnDrop
  /\ last.op = "dragEnd"
  /\ LastDragged # None
  /\ LastQuadrant.columnIndex = Len(last.prev.columns)
  /\ state = last.prev

\* C12 witness: the quadrant named a negative column index.
C12_WitnessNegative ==
  /\ StaleColumnDrop
  /\ last.op = "dragEndOfResult"
  /\ LastQuadrant.columnIndex < 0
  /\ state = last.prev

\* a part that spells an index: digits, with an optional sign
SpellsNumber(part) ==
  \/ IsDigits(part)
  \/ part # <<>> /\ Head(part) = "-" /\ IsDigits(Tail(part))

\* a destination id that is no quadrant locator: wrong prefix, a column or
\* cell index that is missing or not a number, or a direction that is none
\* of the four
MalformedDestination(id) ==
  LET parts == Split(id, ":")
  IN  \/ Part(parts, 0) # <<"quad">>
      \/ ~SpellsNumber(Part(parts, 1))
      \/ ~SpellsNumber(Part(parts, 2))
      \/ Len(Part(parts, 3)) # 1
      \/ Part(parts, 3)[1] \notin Directions

\* a source id that is no column locator
MalformedSource(id) ==
  LET parts == Split(id, "-")
  IN  Part(parts, 0) # <<"col">> \/ ~SpellsNumber(Part(parts, 1))

\* C13: a drag-end with no destination, with a malformed destination
\* locator or with a source that is no column locator leaves the board
\* unchanged.
C13_MalformedDropIsNoOp ==
  ( /\ last.op = "dragEndOfResult"
    /\ \/ last.result.destination = <<>>
       \/ MalformedDestination(last.result.destination[1])
       \/ MalformedSource(last.result.source.droppableId) )
  => state = last.prev

-----------------------------------------------------------------------------
(* Resize gestures.                                                        *)

\* the last event was a move sample of a column (row) gesture whose pair of
\* elements is on the board
ColumnSample ==
  /\ last.op = "columnPointerMove"
  /\ colResize.index + 1 < Len(last.prev.columns)

RowSample ==
  /\ last.op = "rowPointerMove"
  /\ rowResize.index + 1 < Len(last.prev.rowFracs)

\* the sum of elements i and i+1 of a sequence of fractions
PairSum(fracs, i) == RAdd(fracs[i + 1], fracs[i + 2])

\* C14: a move sample of a column-resize (row-resize) gesture on boundary i
\* changes only the fracs of elements i and i+1; their sum after the sample
\* is their sum at gesture start; every other column frac, the fracs of the
\* other axis, every cell, span and content list are unchanged.
C14_ResizeConservation ==
  /\ ColumnSample =>
       LET i == colResize.index
       IN  /\ PairSum(Fracs(Columns), i) = PairSum(colResize.initialFracs, i)
           /\ Len(Columns) = Len(last.prev.columns)
           /\ \A j \in 0..(Len(Columns) - 1) :
                IF j \in {i, i + 1}
                  THEN [At(Columns, j) EXCEPT !.frac = RZero] =
                         [At(last.prev.columns, j) EXCEPT !.frac = RZero]
                  ELSE At(Columns, j) = At(last.prev.columns, j)
           /\ state.rowFracs = last.prev.rowFracs
           /\ state.cardsByCell = last.prev.cardsByCell
  /\ RowSample =>
       LET i == rowResize.index
       IN  /\ PairSum(state.rowFracs, i) = PairSum(rowResize.initialFracs, i)
           /\ Len(state.rowFracs) = Len(last.prev.rowFracs)
           /\ \A j \in 0..(Len(state.rowFracs) - 1) :
                j \notin {i, i + 1} => state.rowFracs[j + 1] = last.prev.rowFracs[j + 1]
           /\ state.columns = last.prev.columns
           /\ state.cardsByCell = last.prev.cardsByCell

\* C14 witness: a column sample on a board of three or more columns moved
\* the two fracs of its pair.
C14_Witness ==
  /\ ColumnSample
  /\ Len(Columns) >= 3
  /\ At(Columns, colResize.index).frac # At(last.prev.columns, colResize.index).frac
  /\ At(Columns, colResize.index + 1).frac
       # At(last.prev.columns, colResize.index + 1).frac

\* C14 witness: a row sample moved the two fracs of its pair.
C14_WitnessRow ==
  /\ RowSample
  /\ state.rowFracs[rowResize.index + 1] # last.prev.rowFracs[rowResize.index + 1]
  /\ state.rowFracs[rowResize.index + 2] # last.prev.rowFracs[rowResize.index + 2]

\* min(configured minimum fraction, combined / 2) of a gesture
EffectiveMin(g, minPx) ==
  RMin(RMin(Rat(1, 2), Rat(minPx, g.size)),
       RDiv(PairSum(g.initialFracs, g.index), Rat(2, 1)))

\* both fractions lie in [effectiveMin, combined - effectiveMin]
PairWithinClamp(fracs, g, minPx) ==
  LET low == EffectiveMin(g, minPx)
      high == RSub(PairSum(g.initialFracs, g.index), low)
  IN  \A j \in {g.index + 1, g.index + 2} : RLe(low, fracs[j]) /\ RLe(fracs[j], high)

\* C15: after every move sample both fracs of the resized pair lie in
\* [effectiveMin, combined - effectiveMin], effectiveMin being
\* min(configured minimum fraction, combined / 2); with two columns 0.5/0.5 in
\* a 200px container and the 140px minimum every sample leaves both at 0.5.
C15_ResizeClamp ==
  /\ ColumnSample =>
       /\ PairWithinClamp(Fracs(Columns), colResize, MIN_COL_PX)
       /\ ( /\ colResize.initialFracs = <<Rat(1, 2), Rat(1, 2)>>
            /\ colResize.size = 200 )
          => /\ At(Columns, 0).frac = Rat(1, 2)
             /\ At(Columns, 1).frac = Rat(1, 2)
  /\ RowSample => PairWithinClamp(state.rowFracs, rowResize, MIN_ROW_PX)

\* C15 witness: a sample far beyond the minimum was stopped at effectiveMin.
C15_Witness ==
  /\ ColumnSample
  /\ last.deltaPx = -350
  /\ colResize.size = 700
  /\ At(Columns, colResize.index).frac = Rat(MIN_COL_PX, 700)

\* C15 witness: two columns 0.5/0.5, 200px: a sample left both at 0.5.
C15_WitnessCollapsed ==
  /\ ColumnSample
  /\ colResize.initialFracs = <<Rat(1, 2), Rat(1, 2)>>
  /\ colResize.size = 200
  /\ last.deltaPx = 70
  /\ Fracs(Columns) = <<Rat(1, 2), Rat(1, 2)>>

\* C16: a sample's result depends only on the gesture-start snapshot and
\* its own delta: whatever sample came last, the next sample d gives the
\* board that d would have given in its place, and the last sample
\* repeated changes nothing.
C16_SamplesDoNotCompound ==
  /\ ColumnSample =>
       /\ \A d \in Deltas :
            columnPointerMove(state, colResize, d) =
              columnPointerMove(last.prev, colResize, d)
       /\ columnPointerMove(state, colResize, last.deltaPx) = state
  /\ RowSample =>
       /\ \A d \in Deltas :
            rowPointerMove(state, rowResize, d) = rowPointerMove(last.prev, rowResize, d)
       /\ rowPointerMove(state, rowResize, last.deltaPx) = state

\* C16 witness: a second sample of a gesture, with the delta of no earlier
\* sample, came after a first one that had moved the pair.
C16_Witness ==
  /\ ColumnSample
  /\ Fracs(last.prev.columns) # colResize.initialFracs
  /\ Fracs(Columns) # Fracs(last.prev.columns)
  /\ Fracs(Columns) # colResize.initialFracs

\* a resize gesture is in progress
InGesture == colResize.registered \/ rowResize.registered

\* C17: every board between gesture start and gesture end has column fracs
\* summing to 1 and row fracs summing to 1, also when a command is applied
\* between the gesture start and a later move sample.
C17_IntermediateBoardsValid ==
  InGesture =>
    /\ FracsSumToOne(Columns)
    /\ RSum(state.rowFracs) = ROne

\* C18: a started gesture can end from every state it reaches; pointer-up
\* deregisters the gesture's listeners and clears the active-handle marker;
\* with no listener registered no pointer-move is handled; and, the pointer
\* being released in the end, every started gesture ends.
C18_GestureLifecycle ==
  /\ [](colResize.registered => ENABLED ColumnPointerUp)
  /\ [](rowResize.registered => ENABLED RowPointerUp)
  /\ [](last.op = "columnPointerUp" =>
          ~colResize.registered /\ activeColumnHandle = <<>>)
  /\ [](last.op = "rowPointerUp" => ~rowResize.registered /\ activeRowHandle = <<>>)
  /\ [](~colResize.registered => ~ENABLED ColumnPointerMove)
  /\ [](~rowResize.registered => ~ENABLED RowPointerMove)
  /\ (colResize.registered ~> ~colResize.registered)
  /\ (rowResize.registered ~> ~rowResize.registered)

\* C18 witness: a column gesture that had moved its pair has ended.
C18_Witness ==
  /\ last.op = "columnPointerUp"
  /\ ~colResize.registered
  /\ activeColumnHandle = <<>>
  /\ Fracs(Columns) # last.closure.initialFracs

\* the last event was a pointer-down on a column (row) handle with the
\* container unmeasured or with no element after the boundary
IdleColumnStart ==
  /\ last.op = "startColumnResize"
  /\ last.size = 0 \/ Len(last.prev.columns) <= last.index + 1

IdleRowStart ==
  /\ last.op = "startRowResize"
  /\ last.size = 0 \/ Len(last.prev.rowFracs) <= last.index + 1

\* C19: a resize gesture started with the container size 0, or on a
\* boundary i with no element at i+1, is a no-op: no handle becomes active,
\* no listener is registered, the board is unchanged and no pointer-move or
\* pointer-up of it is ever handled.
C19_IdleResizeStart ==
  /\ IdleColumnStart =>
       /\ ~colResize.registered
       /\ activeColumnHandle = <<>>
       /\ state = last.prev
       /\ ~ENABLED ColumnPointerMove
       /\ ~ENABLED ColumnPointerUp
  /\ IdleRowStart =>
       /\ ~rowResize.registered
       /\ activeRowHandle = <<>>
       /\ state = last.prev
       /\ ~ENABLED RowPointerMove
       /\ ~ENABLED RowPointerUp

\* C19 witness: pointer-down on the only boundary handle position of a
\* board with a single column, the board being measured.
C19_Witness ==
  /\ IdleColumnStart
  /\ Len(Columns) = 1
  /\ last.size > 0
  /\ last.index = 0
  /\ ~colResize.registered

\* C19 witness: pointer-down on a boundary between two columns before the
\* board was measured.
C19_WitnessUnmeasured ==
  /\ IdleColumnStart
  /\ last.size = 0
  /\ last.index + 1 < Len(Columns)
  /\ ~colResize.registered

\* C19 witness: pointer-down past the last row.
C19_WitnessRow ==
  /\ IdleRowStart
  /\ last.size > 0
  /\ last.index + 1 = Len(state.rowFracs)
  /\ ~rowResize.registered

\* the content map without the entry of one cell, every other entry as it was
WithoutEntry(after, before, id) ==
  /\ DOMAIN after = DOMAIN before \ {id}
  /\ \A k \in DOMAIN after : after[k] = before[k]

\* the last event was the simple board's delete-cell for a cell of the
\* column it named
SimpleDeletedCell ==
  /\ last.op = "simpleDeleteCell"
  /\ \E col \in ColumnOfId(last.prevSimple.columns, last.columnId) :
       last.cellId \in CellIds(<<col>>)

\* C20: delete-cell removes the cell and its content list together: the
\* cell is in no column, the content map has no entry for its id, and every
\* other cell's content list is unchanged; on the quadrant board by
\* (columnIndex, cellIndex), on the simple board by (columnId, cellId).
C20_DeleteCellCascades ==
  /\ (last.op = "deleteCell" /\ LastDeleteCell # None) =>
       /\ LastDeleteCell.id \notin CellIds(Columns)
       /\ CellIds(Columns) = CellIds(last.prev.columns) \ {LastDeleteCell.id}
       /\ WithoutEntry(state.cardsByCell, last.prev.cardsByCell, LastDeleteCell.id)
  /\ SimpleDeletedCell =>
       /\ last.cellId \notin CellIds(simple.columns)
       /\ CellIds(simple.columns) = CellIds(last.prevSimple.columns) \ {last.cellId}
       /\ WithoutEntry(simple.tasksByCell, last.prevSimple.tasksByCell, last.cellId)

\* C20 witness: a cell holding cards was deleted from the quadrant board.
C20_Witness ==
  /\ last.op = "deleteCell"
  /\ LastDeleteCell # None
  /\ last.prev.cardsByCell[LastDeleteCell.id] # <<>>
  /\ LastDeleteCell.id \notin DOMAIN state.cardsByCell
  /\ LastDeleteCell.id \notin CellIds(Columns)

\* C20 witness: a cell holding tasks was deleted from the simple board.
C20_WitnessSimple ==
  /\ SimpleDeletedCell
  /\ last.prevSimple.tasksByCell[last.cellId] # <<>>
  /\ last.cellId \notin DOMAIN simple.tasksByCell
  /\ last.cellId \notin CellIds(simple.columns)

-----------------------------------------------------------------------------
(* Identity.                                                               *)

ColumnIds(cols) == [i \in 1..Len(cols) |-> cols[i].id]

\* the ids of the cells of each column, in order
CellIdLayout(cols) ==
  [i \in 1..Len(cols) |-> [j \in 1..Len(cols[i].cells) |-> cols[i].cells[j].id]]

\* the column ids are those of before, in order, with at most one left out
SurvivingColumnIds(after, before) ==
  \E gone \in Range(ColumnIds(before)) \cup {0} :
    ColumnIds(after) = SelectSeq(ColumnIds(before), LAMBDA id : id # gone)

\* the last event was a cell drag on the quadrant board or on its variant
CellDrag ==
  \/ last.op \in {"dragEnd", "dragEndOfResult"}
  \/ last.op = "variantDragEnd" /\ last.result.type = "CELL"

SimpleCellDrag == last.op = "simpleDragEnd" /\ last.result.type = "CELL"

\* C21 (I6): a cell drag-move, a resize sample and a title update change no
\* cell id and no surviving column id and leave the content map as it was,
\* so every cell, the dragged one included, keeps its content list; a resize
\* sample and a title update also leave every cell where it was.
C21_IdentityStability ==
  /\ CellDrag =>
       /\ CellIds(Columns) = CellIds(last.prev.columns)
       /\ CountCells(Columns) = CountCells(last.prev.columns)
       /\ SurvivingColumnIds(Columns, last.prev.columns)
       /\ state.cardsByCell = last.prev.cardsByCell
  /\ last.op \in {"columnPointerMove", "rowPointerMove", "updateCellTitle"} =>
       /\ CellIdLayout(Columns) = CellIdLayout(last.prev.columns)
       /\ ColumnIds(Columns) = ColumnIds(last.prev.columns)
       /\ state.cardsByCell = last.prev.cardsByCell
  /\ SimpleCellDrag =>
       /\ CellIds(simple.columns) = CellIds(last.prevSimple.columns)
       /\ CountCells(simple.columns) = CountCells(last.prevSimple.columns)
       /\ ColumnIds(simple.columns) = ColumnIds(last.prevSimple.columns)
       /\ simple.tasksByCell = last.prevSimple.tasksByCell

\* C21 witness: a cell holding cards was dragged into another column and is
\* there with the cards it had.
C21_Witness ==
  /\ CrossColumnMove
  /\ PlacesOf(Columns, LastDragged.id) # PlacesOf(last.prev.columns, LastDragged.id)
  /\ state.cardsByCell[LastDragged.id] # <<>>
  /\ state.cardsByCell[LastDragged.id] = last.prev.cardsByCell[LastDragged.id]

\* C21 witness: a cell holding cards was renamed.
C21_WitnessTitle ==
  /\ last.op = "updateCellTitle"
  /\ Columns # last.prev.columns
  /\ state.cardsByCell[last.cellId] # <<>>

\* C21 witness: on the simple board a cell holding tasks went to another
\* column.
C21_WitnessSimple ==
  /\ SimpleCellDrag
  /\ CellIdLayout(simple.columns) # CellIdLayout(last.prevSimple.columns)
  /\ Len(simple.columns[1].cells) < Len(last.prevSimple.columns[1].cells)
  /\ simple.tasksByCell[2] # <<>>

-----------------------------------------------------------------------------
(* Layout functions.                                                       *)

\* two column lists differ in their fracs at most
SameButFracs(a, b) ==
  /\ Len(a) = Len(b)
  /\ \A i \in 1..Len(a) : [a[i] EXCEPT !.frac = RZero] = [b[i] EXCEPT !.frac = RZero]

\* C22: for every column list whose fracs have a positive total,
\* normalizeFracs applied to its own result returns that result, the
\* result's fracs sum to 1, each is the input frac divided by the total, and
\* order, ids and cells are those of the input.
C22_NormalizeIdempotent ==
  (last.op = "normalizeFracs" /\ RLt(RZero, RSum(Fracs(last.columns)))) =>
    /\ normalizeFracs(last.result) = last.result
    /\ RSum(Fracs(last.result)) = ROne
    /\ SameButFracs(last.result, last.columns)
    /\ \A i \in 1..Len(last.columns) :
         last.result[i].frac = RDiv(last.columns[i].frac, RSum(Fracs(last.columns)))

\* C22 witness: fracs 1/2, 1/3, 3/2 were rescaled to 3/14, 1/7, 9/14.
C22_Witness ==
  /\ last.op = "normalizeFracs"
  /\ Fracs(last.columns) = <<Rat(1, 2), Rat(1, 3), Rat(3, 2)>>
  /\ Fracs(last.result) = <<Rat(3, 14), Rat(1, 7), Rat(9, 14)>>

\* cells with integer spans as cells with number spans
Numbers(cells) == [i \in 1..Len(cells) |-> [cells[i] EXCEPT !.span = Rat(@, 1)]]

\* the last event was a call of clampSpansToRows on a non-empty cell list
\* with at least as many rows as cells
ClampedWithinRows ==
  /\ last.op = "clampSpansToRows"
  /\ last.cells # <<>>
  /\ last.rows >= Len(last.cells)

\* C23: for a non-empty cell list, rows >= len(cells) and any preserveIndex,
\* clampSpansToRows applied to its own output returns that output, with the
\* same preserveIndex and with any other.
C23_ClampConvergence ==
  ClampedWithinRows =>
    \A preserveIndex \in -1..Len(last.cells) :
      clampSpansToRows(roundSpans(Numbers(last.result)), last.rows, preserveIndex)
        = last.result

\* C23 witness: spans 3 and 1.5 in 3 rows, the first preserved: the call
\* reduced both, and its output is a fixed point.
C23_Witness ==
  /\ ClampedWithinRows
  /\ [i \in 1..Len(last.cells) |-> last.cells[i].span] = <<Rat(3, 1), Rat(3, 2)>>
  /\ last.rows = 3
  /\ last.preserveIndex = 0
  /\ [i \in 1..Len(last.result) |-> last.result[i].span] = <<2, 1>>
  /\ clampSpansToRows(last.result, 3, 0) = last.result

\* C30: for a non-empty cell list, rows >= len(cells) and any preserveIndex
\* (absent, in range, out of range), clampSpansToRows returns the same cells
\* in the same order, each with an integer span >= 1, the spans summing to
\* rows.
C30_ClampTotals ==
  ClampedWithinRows =>
    /\ Len(last.result) = Len(last.cells)
    /\ \A i \in 1..Len(last.cells) :
         /\ [last.result[i] EXCEPT !.span = 0] = [last.cells[i] EXCEPT !.span = 0]
         /\ last.result[i].span \in Nat
         /\ last.result[i].span >= 1
    /\ sumSpans(last.result) = last.rows

\* C30 witness: spans 0.5 and 1 in 4 rows, no preserveIndex: the last cell
\* took the deficit.
C30_Witness ==
  /\ ClampedWithinRows
  /\ [i \in 1..Len(last.cells) |-> last.cells[i].span] = <<Rat(1, 2), ROne>>
  /\ last.rows = 4
  /\ last.preserveIndex = -1
  /\ [i \in 1..Len(last.result) |-> last.result[i].span] = <<1, 3>>

\* C30 witness: an out-of-range preserveIndex, and more span than rows.
C30_WitnessOverflow ==
  /\ ClampedWithinRows
  /\ last.preserveIndex = Len(last.cells)
  /\ sumSpans(roundSpans(last.cells)) > last.rows
  /\ sumSpans(last.result) = last.rows

\* the spans clampSpansToRows starts from: each rounded and raised to 1
StartSpans == [i \in 1..Len(last.cells) |-> Max(1, Round(last.cells[i].span))]

ResultSpans == [i \in 1..Len(last.result) |-> last.result[i].span]

RECURSIVE SumOf(_)
SumOf(s) == IF s = <<>> THEN 0 ELSE Head(s) + SumOf(Tail(s))

\* the last event was a call of clampSpansToRows on a non-empty cell list
Clamped == last.op = "clampSpansToRows" /\ last.cells # <<>>

\* the preserveIndex names a cell
PreserveInRange == last.preserveIndex >= 0 /\ last.preserveIndex < Len(last.cells)

\* C31: on a deficit the cell at preserveIndex (the last cell when
\* preserveIndex is absent or out of range) gains the whole deficit and
\* every other span is the starting one; on an overflow no span grows, the
\* cell at preserveIndex is below its starting span only when every other
\* cell is at span 1, and a cell other than it is below its starting span
\* only when every such cell of lower index is at span 1.
C31_PreserveOrder ==
  Clamped =>
    LET n == Len(last.cells)
        p == last.preserveIndex + 1
        g == IF PreserveInRange THEN p ELSE n
        deficit == last.rows - SumOf(StartSpans)
    IN  /\ deficit > 0 =>
             \A i \in 1..n :
               ResultSpans[i] = StartSpans[i] + (IF i = g THEN deficit ELSE 0)
        /\ deficit < 0 =>
             /\ \A i \in 1..n : ResultSpans[i] <= StartSpans[i]
             /\ (PreserveInRange /\ ResultSpans[p] < StartSpans[p])
                  => \A i \in 1..n : i # p => ResultSpans[i] = 1
             /\ \A i, j \in 1..n :
                  (i < j /\ i # p /\ j # p /\ ResultSpans[j] < StartSpans[j])
                    => ResultSpans[i] = 1

\* C31 witness: spans 1, 1, 1 in 4 rows with the first cell preserved: the
\* first cell took the deficit.
C31_Witness ==
  /\ Clamped
  /\ StartSpans = <<1, 1, 1>>
  /\ last.rows = 4
  /\ last.preserveIndex = 0
  /\ ResultSpans = <<2, 1, 1>>

\* C31 witness: spans 3, 3, 2 in 4 rows with the first cell preserved: the
\* other two went down to 1 in turn before the first lost one.
C31_WitnessOverflow ==
  /\ Clamped
  /\ StartSpans = <<3, 3, 2>>
  /\ last.rows = 4
  /\ last.preserveIndex = 0
  /\ ResultSpans = <<2, 1, 1>>

\* C31 witness: spans 3, 3, 1 in 4 rows with the last cell preserved: the
\* first cell went down to 1 and the second gave the rest.
C31_WitnessOrder ==
  /\ Clamped
  /\ StartSpans = <<3, 3, 1>>
  /\ last.rows = 4
  /\ last.preserveIndex = 2
  /\ ResultSpans = <<1, 2, 1>>

\* the ids of these cells, in order
IdsOf(cells) == [i \in 1..Len(cells) |-> cells[i].id]

\* C32: for any insertIndex, insertCellWithClamp returns one cell more than
\* it was given; the new cell is at index clamp(insertIndex, 0, len(cells));
\* the cells without it have the ids of the given cells in their order; and
\* the spans are those clampSpansToRows gives the cells with the new one
\* spliced in, the new cell's position being the preserveIndex.
C32_InsertCellWithClamp ==
  last.op = "insertCellWithClamp" =>
    LET at == clamp(last.insertIndex, 0, Len(last.cells))
    IN  /\ Len(last.result) = Len(last.cells) + 1
        /\ last.result[at + 1].id = last.newCell.id
        /\ IdsOf(SpliceOut(last.result, at)) = IdsOf(last.cells)
        /\ last.result =
             clampSpansToRows(SpliceIn(last.cells, at, last.newCell), last.rows, at)

\* C32 witness: a cell of span 1 inserted at index -2 into cells of spans
\* 1 and 1 in 4 rows: it is first and took the deficit.
C32_Witness ==
  /\ last.op = "insertCellWithClamp"
  /\ last.insertIndex = -2
  /\ [i \in 1..Len(last.cells) |-> last.cells[i].span] = <<1, 1>>
  /\ last.rows = 4
  /\ last.newCell.span = 1
  /\ IdsOf(last.result) = <<9, 1, 2>>
  /\ [i \in 1..Len(last.result) |-> last.result[i].span] = <<2, 1, 1>>

\* C32 witness: a cell inserted two places past the end is last.
C32_WitnessPastEnd ==
  /\ last.op = "insertCellWithClamp"
  /\ Len(last.cells) = 2
  /\ last.insertIndex = 4
  /\ IdsOf(last.result) = <<1, 2, 9>>

\* the quadrant board with these columns
BoardOf(columns) == [createInitialBoard EXCEPT !.columns = columns]

\* C33: normalizeFracs returns a column list whose fracs total 0, the empty
\* list included, as it is, so that no frac is divided by 0; and delete-cell
\* on a board of one column of one cell gives a board of no column, which is
\* what normalizeFracs makes of the empty list.
C33_DegenerateGuard ==
  last.op = "normalizeFracs" =>
    /\ RSum(Fracs(last.columns)) = RZero => last.result = last.columns
    /\ \A col \in Range(last.result) : col.frac[2] # 0
    /\ Len(last.columns) = 1 =>
         /\ handleDeleteCell(BoardOf(last.columns), 0, 0).columns = <<>>
         /\ handleDeleteCell(BoardOf(last.columns), 0, 0).columns
              = normalizeFracs(SpliceOut(last.columns, 0))

\* C33 witness: two columns of frac 0 were returned as they are.
C33_Witness ==
  /\ last.op = "normalizeFracs"
  /\ Fracs(last.columns) = <<RZero, RZero>>
  /\ last.result = last.columns

\* C33 witness: the empty column list was returned as it is.
C33_WitnessEmpty ==
  /\ last.op = "normalizeFracs"
  /\ last.columns = <<>>
  /\ last.result = <<>>

-----------------------------------------------------------------------------
(* Self-check.                                                             *)

\* C24: in every state reachable from the initial quadrant board by
\* add-column, delete-cell and drag-move commands the board has at least one
\* column and every column has at least one cell: the badge condition
\* noEmpty && columns.length > 0 is true.  It is true of the initial board,
\* so it is true of every reachable one when each of these commands keeps it.
C24_NoEmptyBadge ==
  ( /\ last.op \in {"addColumn", "deleteCell", "dragEnd", "dragEndOfResult"}
    /\ noEmptyOk(last.prev.columns) )
  => noEmptyOk(state.columns)

-----------------------------------------------------------------------------
(* Moves of cards and tasks.                                               *)

\* the cell id a parsed content droppable names; 0, the id of no cell, when
\* it names none
NamedCell(parsed) == IF Falsy(parsed) THEN 0 ELSE parsed.value[1]

\* the last event was a card move on the variant with a destination
CardMove ==
  /\ last.op = "variantDragEnd"
  /\ last.result.type = "CARD"
  /\ last.result.destination # <<>>

\* the last event was a task move on the simple board with a destination
TaskMove ==
  /\ last.op = "simpleDragEnd"
  /\ last.result.type = "TASK"
  /\ last.result.destination # <<>>

\* the move names a source or a destination cell that is not on the board,
\* or a source index that holds no item
StaleContentMove(cols, contentByCell, src, dst, index) ==
  \/ src \notin CellIds(cols)
  \/ dst \notin CellIds(cols)
  \/ src \notin DOMAIN contentByCell
  \/ ~Holds(contentByCell[src], index)

\* C25: a card or task move whose source or destination names a cell that
\* is not on the board, or whose source index holds no item, returns the
\* board unchanged, and so creates no content list for a cell that does not
\* exist.
C25_StaleContentMoveIsNoOp ==
  /\ CardMove =>
       LET src == NamedCell(parseCardDroppableId(last.result.source.droppableId))
           dst == NamedCell(parseCardDroppableId(last.result.destination[1].droppableId))
       IN  StaleContentMove(last.prev.columns, last.prev.cardsByCell, src, dst,
                            last.result.source.index)
             => /\ state = last.prev
                /\ DOMAIN state.cardsByCell \subseteq CellIds(Columns)
  /\ TaskMove =>
       LET src == NamedCell(parseTasksDroppableId(last.result.source.droppableId))
           dst == NamedCell(parseTasksDroppableId(last.result.destination[1].droppableId))
       IN  StaleContentMove(last.prevSimple.columns, last.prevSimple.tasksByCell, src,
                            dst, last.result.source.index)
             => /\ simple = last.prevSimple
                /\ DOMAIN simple.tasksByCell \subseteq CellIds(simple.columns)

-----------------------------------------------------------------------------
(* Drag-move: the index correction and the cross-column paths.             *)

\* the last event was a drag-end whose quadrant names a column of the board
ResolvedDrop ==
  /\ last.op = "dragEnd"
  /\ At(last.prev.columns, last.quadrant.columnIndex) # None

\* C26: resolveDestination returns the computed insert index minus one
\* exactly when the resolved column is the source column and the computed
\* index is greater than the source index, and the computed index itself
\* otherwise (another column, or an index <= the source index); the column
\* is the computed one in every case.  Stated for the quadrant of the last
\* drag-end and every source position.
C26_SameColumnCorrection ==
  ResolvedDrop =>
    LET cols == last.prev.columns
        t == resolveTarget(cols, last.quadrant)
    IN  \A sc \in 0..Len(cols), si \in 0..Len(INITIAL_ROWS) :
          LET d == resolveDestination(cols, last.quadrant, sc, si)
          IN  /\ d # None
              /\ d.columnIndex = t.columnIndex
              /\ (t.columnIndex = sc /\ t.insertIndex > si)
                   => d.insertIndex = t.insertIndex - 1
              /\ t.columnIndex # sc => d.insertIndex = t.insertIndex
              /\ t.insertIndex <= si => d.insertIndex = t.insertIndex

\* C26 witness: a cell was dropped on the bottom of a cell below it in its
\* own column: the computed index was past the source and was lowered.
C26_Witness ==
  /\ SameColumnMove
  /\ resolveTarget(last.prev.columns, last.quadrant).insertIndex > last.sourceIndex
  /\ LastDestination.insertIndex =
       resolveTarget(last.prev.columns, last.quadrant).insertIndex - 1
  /\ PlacesOf(Columns, LastDragged.id) =
       {<<LastSourceColumn.id, LastDestination.insertIndex>>}

\* C26 witness: a cell was dropped on the top of itself: the computed index
\* equals the source index and is returned as it is.
C26_WitnessAtSource ==
  /\ SameColumnMove
  /\ resolveTarget(last.prev.columns, last.quadrant).insertIndex = last.sourceIndex
  /\ LastDestination.insertIndex = last.sourceIndex
  /\ Columns = last.prev.columns

\* the cell drag handled last, whichever board handled it: the source
\* position and the destination the handler computed (None when it computed
\* none)
MoveOf ==
  IF last.op = "dragEnd"
    THEN [sourceColumnIndex |-> last.sourceColumnIndex,
          sourceIndex |-> last.sourceIndex,
          destination |-> LastDestination]
    ELSE LET source == last.result.source
             sourceColumnIndex == parseColumnDroppableId(source.droppableId)
         IN  [sourceColumnIndex |-> sourceColumnIndex.index,
              sourceIndex |-> source.index,
              destination |->
                variantDestinationInfo(last.prev, source, last.result.destination[1],
                                       sourceColumnIndex.index)]

\* the last event was a cell drag that came as far as a destination
CellDrop ==
  \/ last.op = "dragEnd"
  \/ /\ last.op = "variantDragEnd"
     /\ last.result.type = "CELL"
     /\ last.result.destination # <<>>
     /\ ~parseColumnDroppableId(last.result.source.droppableId).isNull

MoveSourceColumn == At(last.prev.columns, MoveOf.sourceColumnIndex)

MoveDestinationColumn == At(last.prev.columns, MoveOf.destination.columnIndex)

MovedCell == At(MoveSourceColumn.cells, MoveOf.sourceIndex)

\* the last event took an existing cell out of its column for another
\* column index
ColumnMove ==
  /\ CellDrop
  /\ MoveOf.destination # None
  /\ MoveSourceColumn # None
  /\ MovedCell # None
  /\ MoveOf.destination.columnIndex # MoveOf.sourceColumnIndex

\* the move leaves its source column without a cell
EmptyingMove == ColumnMove /\ Len(MoveSourceColumn.cells) = 1

\* the columns, with the source column of the move left out
RemainingColumns ==
  SelectSeq(last.prev.columns, LAMBDA col : col.id # MoveSourceColumn.id)

\* the index, counted from 0, of the column with this id
IndexOfColumn(cols, id) == CHOOSE i \in 0..(Len(cols) - 1) : cols[i + 1].id = id

\* C27: a cross-column move out of a column of one cell, to a column of the
\* board: the source column is gone and the others stay in order; the moved
\* cell is in the column that had the destination index before the removal,
\* now at that index less one when it was to the right of the source; each
\* remaining frac is its previous value divided by the previous total of
\* the remaining fracs, so the fracs sum to 1.
C27_EmptyingMove ==
  (EmptyingMove /\ MoveDestinationColumn # None) =>
    LET d == MoveOf.destination
        dst == MoveDestinationColumn
        total == RSum(Fracs(RemainingColumns))
    IN  /\ ColumnOfId(Columns, MoveSourceColumn.id) = {}
        /\ ColumnIds(Columns) = ColumnIds(RemainingColumns)
        /\ PlacesOf(Columns, MovedCell.id) =
             {<<dst.id, clamp(d.insertIndex, 0, Len(dst.cells))>>}
        /\ IndexOfColumn(Columns, dst.id) =
             IF d.columnIndex > MoveOf.sourceColumnIndex
               THEN d.columnIndex - 1 ELSE d.columnIndex
        /\ Fracs(Columns) =
             [i \in 1..Len(RemainingColumns) |-> RDiv(RemainingColumns[i].frac, total)]
        /\ RSum(Fracs(Columns)) = ROne

\* C27 witness: the only cell of the first column was moved to a column on
\* its right, which is one place further left afterwards, and the fracs of
\* the columns left changed.
C27_Witness ==
  /\ EmptyingMove
  /\ MoveDestinationColumn # None
  /\ MoveOf.destination.columnIndex > MoveOf.sourceColumnIndex
  /\ Len(Columns) = Len(last.prev.columns) - 1
  /\ IndexOfColumn(Columns, MoveDestinationColumn.id) = MoveOf.destination.columnIndex - 1
  /\ MovedCell.id \in CellIds(Columns)
  /\ Fracs(Columns) # Fracs(RemainingColumns)

\* C27 witness: the same on the variant, for a drop on a column.
C27_WitnessVariant ==
  /\ C27_Witness
  /\ last.op = "variantDragEnd"

\* the move leaves its source column on the board
KeepingMove == ColumnMove /\ Len(MoveSourceColumn.cells) > 1

\* the column the moved cell goes to when no column is removed: the
\* destination index, or the last column when the index is past it
LandingColumnIndex ==
  clamp(MoveOf.destination.columnIndex, 0, Len(last.prev.columns) - 1)

\* the cells of the source column without the moved one
SiblingsOfMoved == SpliceOut(MoveSourceColumn.cells, MoveOf.sourceIndex)

\* these cells are the siblings with one of them grown by the moved span
OneSiblingAbsorbed(cells) ==
  \E j \in 1..Len(SiblingsOfMoved) :
    cells = [SiblingsOfMoved EXCEPT ![j].span = @ + MovedCell.span]

\* C28: a cross-column move out of a column of several cells leaves every
\* column frac, the number of columns and the order of their ids as they
\* were, and every column other than the source and the one the cell lands
\* in exactly as it was; the source column holds its other cells in their
\* order, one of them grown by the moved cell's span and the rest with the
\* span they had.
C28_KeepingMove ==
  KeepingMove =>
    /\ Fracs(Columns) = Fracs(last.prev.columns)
    /\ ColumnIds(Columns) = ColumnIds(last.prev.columns)
    /\ \A c \in 0..(Len(Columns) - 1) :
         c \notin {MoveOf.sourceColumnIndex, LandingColumnIndex}
           => Columns[c + 1] = last.prev.columns[c + 1]
    /\ LandingColumnIndex # MoveOf.sourceColumnIndex
         => OneSiblingAbsorbed(Columns[MoveOf.sourceColumnIndex + 1].cells)

\* C28 witness: a cell left a column of three cells for another column of a
\* board of three columns: one sibling took its span, the other sibling and
\* the third column are as they were.
C28_Witness ==
  /\ KeepingMove
  /\ Len(MoveSourceColumn.cells) = 3
  /\ Len(Columns) = 3
  /\ LandingColumnIndex # MoveOf.sourceColumnIndex
  /\ OneSiblingAbsorbed(Columns[MoveOf.sourceColumnIndex + 1].cells)
  /\ MovedCell.id \in CellIds(<<Columns[LandingColumnIndex + 1]>>)
  /\ \E c \in 0..2 : /\ c \notin {MoveOf.sourceColumnIndex, LandingColumnIndex}
                     /\ Columns[c + 1] = last.prev.columns[c + 1]

\* C28 witness: the same on the variant, for a drop on a column.
C28_WitnessVariant ==
  /\ C28_Witness
  /\ last.op = "variantDragEnd"

\* the columns a move out of (sc, si) finds once the cell is taken: all of
\* them, or all but the source column when the cell was its only one
ColumnsLeft(cols, sc) ==
  IF Len(cols[sc + 1].cells) = 1
    THEN SelectSeq(cols, LAMBDA col : col.id # cols[sc + 1].id)
    ELSE cols

\* the destination column index after the shift for a removed source column
ShiftedIndex(cols, sc, c) ==
  IF Len(cols[sc + 1].cells) = 1 /\ c > sc THEN c - 1 ELSE c

\* that index names none of the columns left
OutOfRange(cols, sc, c) ==
  \/ ShiftedIndex(cols, sc, c) < 0
  \/ ShiftedIndex(cols, sc, c) >= Len(ColumnsLeft(cols, sc))

\* what C29 says of a move of the cell at (sc, si) of cols to the
\* out-of-range column index d.columnIndex, after being the columns that
\* follow: with no column left the columns are those of before; otherwise
\* the cell is in the first column left (index below 0) or the last one
\* (index past the end), at the insert index bounded by that column's other
\* cells, and the board holds the cells it held.
ClampedLanding(cols, after, sc, si, d) ==
  LET src == cols[sc + 1]
      moved == src.cells[si + 1]
      remaining == ColumnsLeft(cols, sc)
      near == IF ShiftedIndex(cols, sc, d.columnIndex) < 0 THEN 1 ELSE Len(remaining)
      target == remaining[near]
      others == IF target.id = src.id THEN Len(target.cells) - 1 ELSE Len(target.cells)
  IN  IF remaining = <<>> THEN after = cols
      ELSE /\ PlacesOf(after, moved.id) =
                {<<target.id, clamp(d.insertIndex, 0, others)>>}
           /\ ColumnIds(after) = ColumnIds(remaining)
           /\ CellIds(after) = CellIds(cols)

\* column indexes below 0 and insert indexes, for the clamp at its lower end
IndexesBelow == {-2, -1}

InsertIndexes == {0, 5}

\* the last cell drag asked for a column index that names no column left
OutOfRangeMove ==
  /\ ColumnMove
  /\ OutOfRange(last.prev.columns, MoveOf.sourceColumnIndex,
                MoveOf.destination.columnIndex)

\* C29: a cell drag whose destination column index, after the shift for a
\* removed source column, names no column puts the cell into the nearest
\* column left (the last one for an index past the end, the first one for
\* an index below 0); the board is as before when no column is left; the
\* board never loses the dragged cell.  The drop results give indexes past
\* the end; for an index below 0, which no droppable id yields, the
\* cross-column code is applied to every cell of the board as it stands.
C29_OutOfRangeClamps ==
  /\ OutOfRangeMove =>
       ClampedLanding(last.prev.columns, Columns, MoveOf.sourceColumnIndex,
                      MoveOf.sourceIndex, MoveOf.destination)
  /\ \A loc \in CellLocators(Columns), c \in IndexesBelow, i \in InsertIndexes :
       LET d == [columnIndex |-> c, insertIndex |-> i]
       IN  ClampedLanding(Columns,
                          dragCrossColumn(Columns, Len(state.rowFracs), loc[1],
                                          loc[2], d),
                          loc[1], loc[2], d)

\* C29 witness: a cell dropped on a column index past the end went to the
\* last column, which is not the one it came from.
C29_Witness ==
  /\ OutOfRangeMove
  /\ Len(Columns) > 1
  /\ MoveSourceColumn.id # Columns[Len(Columns)].id
  /\ MovedCell.id \in CellIds(<<Columns[Len(Columns)]>>)
  /\ MovedCell.id \notin CellIds(<<last.prev.columns[Len(last.prev.columns)]>>)

\* C29 witness: the only cell of the only column was dropped on a column
\* index past the end and the board is as it was.
C29_WitnessNoColumnLeft ==
  /\ OutOfRangeMove
  /\ Len(last.prev.columns) = 1
  /\ Len(MoveSourceColumn.cells) = 1
  /\ state = last.prev
  /\ MovedCell.id \in CellIds(Columns)

\* C29 witness: the move removed its source column and the cell went to the
\* last of the columns left.
C29_WitnessRemovedSource ==
  /\ OutOfRangeMove
  /\ Len(MoveSourceColumn.cells) = 1
  /\ Len(Columns) = Len(last.prev.columns) - 1
  /\ Len(Columns) > 0
  /\ MovedCell.id \in CellIds(<<Columns[Len(Columns)]>>)

-----------------------------------------------------------------------------
(* Content lists: moves, deletes and the keys of the map.                  *)

\* the list the map holds for this cell: none is the empty list
ListOf(contentByCell, cellId) ==
  IF cellId \in DOMAIN contentByCell THEN contentByCell[cellId] ELSE <<>>

\* where this item occurs in the lists of the map: the set of <<key, index>>
OccurrencesOf(contentByCell, item) ==
  UNION {{<<k, i>> : i \in {j \in DOMAIN contentByCell[k] : contentByCell[k][j] = item}} :
           k \in DOMAIN contentByCell}

ItemsOf(contentByCell) == UNION {Range(contentByCell[k]) : k \in DOMAIN contentByCell}

Without(list, item) == SelectSeq(list, LAMBDA x : x # item)

\* what C34 says of a move of the item at index s of the list of cell src to
\* index d of the list of cell dst, before and after being the content maps
ItemMoved(before, after, src, dst, s, d) ==
  LET item == before[src][s + 1]
      rest == SpliceOut(before[src], s)
      target == IF src = dst THEN rest ELSE ListOf(before, dst)
  IN  /\ DOMAIN after = DOMAIN before \cup {dst}
      /\ \A k \in DOMAIN after \ {src, dst} : after[k] = before[k]
      /\ src # dst => after[src] = rest
      /\ Len(after[dst]) = Len(target) + 1
      /\ after[dst][clamp(d, 0, Len(target)) + 1] = item
      /\ Without(after[dst], item) = target
      /\ ItemsOf(after) = ItemsOf(before)
      /\ \A x \in ItemsOf(before) :
           Cardinality(OccurrencesOf(after, x)) = Cardinality(OccurrencesOf(before, x))

\* the move names two cells of the board and a source index that holds an item
ContentMoveOnBoard(cols, contentByCell, src, dst, index) ==
  ~StaleContentMove(cols, contentByCell, src, dst, index)

\* C34: a card move on the variant and a task move on the simple board,
\* from index s of the list of a cell A on the board to index d of the list
\* of a cell B on the board (A = B allowed): the item leaves A's list and is
\* in B's list at clamp(d, 0, length of B's list once the item is out); every
\* item occurs as often as before, the other items keep their order, no
\* other list changes, and columns, spans and fracs are as before.
C34_ContentMoveConserves ==
  /\ CardMove =>
       LET src == NamedCell(parseCardDroppableId(last.result.source.droppableId))
           dst == NamedCell(parseCardDroppableId(last.result.destination[1].droppableId))
       IN  ContentMoveOnBoard(last.prev.columns, last.prev.cardsByCell, src, dst,
                              last.result.source.index)
             => /\ ItemMoved(last.prev.cardsByCell, state.cardsByCell, src, dst,
                             last.result.source.index, last.result.destination[1].index)
                /\ state.columns = last.prev.columns
                /\ state.rowFracs = last.prev.rowFracs
  /\ TaskMove =>
       LET src == NamedCell(parseTasksDroppableId(last.result.source.droppableId))
           dst == NamedCell(parseTasksDroppableId(last.result.destination[1].droppableId))
       IN  ContentMoveOnBoard(last.prevSimple.columns, last.prevSimple.tasksByCell, src,
                              dst, last.result.source.index)
             => /\ ItemMoved(last.prevSimple.tasksByCell, simple.tasksByCell, src, dst,
                             last.result.source.index, last.result.destination[1].index)
                /\ simple.columns = last.prevSimple.columns

\* C34 witness: the first card of cell 4 was dropped at index 5 of the list
\* of cell 10, which held one card: it is second there.
C34_Witness ==
  /\ CardMove
  /\ last.prev.cardsByCell[4] = <<11, 12>>
  /\ 10 \in CellIds(last.prev.columns)
  /\ last.prev.cardsByCell[10] = <<20>>
  /\ state.cardsByCell[4] = <<12>>
  /\ state.cardsByCell[10] = <<20, 11>>

\* C34 witness: the first card of cell 4 was dropped at index 5 of its own
\* list of two: it is second.
C34_WitnessSameCell ==
  /\ CardMove
  /\ last.prev.cardsByCell[4] = <<11, 12>>
  /\ 4 \in CellIds(last.prev.columns)
  /\ state.cardsByCell[4] = <<12, 11>>

\* C34 witnesses on the simple board: the first task of cell 2 dropped at
\* index 5 of its own list, and at index 0 of the list of cell 3.
C34_WitnessTaskSameCell ==
  /\ TaskMove
  /\ last.prevSimple.tasksByCell[2] = <<11, 12>>
  /\ simple.tasksByCell[2] = <<12, 11>>

C34_WitnessTask ==
  /\ TaskMove
  /\ last.prevSimple.tasksByCell[2] = <<11, 12>>
  /\ simple.tasksByCell[2] = <<12>>
  /\ simple.tasksByCell[3] = <<11, 13>>

\* C35: on the simple board, deleting a column by id removes that column and
\* the content list of each of its cells, keeps the other columns as they
\* were and in their order and every other content list as it was; a delete
\* with an id that names no column leaves the board as it was.
C35_SimpleDeleteColumn ==
  last.op = "simpleDeleteColumn" =>
    LET before == last.prevSimple
        named == {column \in Range(before.columns) : column.id = last.columnId}
        gone == CellIds(SelectSeq(before.columns, LAMBDA column : column \in named))
    IN  IF named = {} THEN simple = before
        ELSE /\ simple.columns =
                  SelectSeq(before.columns, LAMBDA column : column.id # last.columnId)
             /\ Len(simple.columns) = Len(before.columns) - 1
             /\ DOMAIN simple.tasksByCell = DOMAIN before.tasksByCell \ gone
             /\ DOMAIN simple.tasksByCell \cap gone = {}
             /\ \A k \in DOMAIN simple.tasksByCell :
                  simple.tasksByCell[k] = before.tasksByCell[k]

\* C35 witness: the second column, of three cells, was deleted: the other two
\* columns and their four lists are left.
C35_Witness ==
  /\ last.op = "simpleDeleteColumn"
  /\ last.columnId = 4
  /\ [i \in 1..Len(simple.columns) |-> simple.columns[i].id] = <<1, 8>>
  /\ DOMAIN simple.tasksByCell = {2, 3, 9, 10}
  /\ DOMAIN last.prevSimple.tasksByCell = {2, 3, 5, 6, 7, 9, 10}

\* C35 witness: a delete with an id that names no column changed nothing.
C35_WitnessNoColumn ==
  /\ last.op = "simpleDeleteColumn"
  /\ last.columnId = 0
  /\ simple = last.prevSimple

-----------------------------------------------------------------------------
(* Delete-cell on the quadrant board with a locator of no cell.            *)

\* the last event was a delete-cell whose indexes name no cell of the board
DeleteOfNoCell ==
  /\ last.op = "deleteCell"
  /\ <<last.columnIndex, last.cellIndex>> \notin CellLocators(last.prev.columns)

\* C36: a delete-cell whose column index or cell index names no existing
\* cell (stale, negative or past the end) returns the board unchanged:
\* columns, spans, fracs and content lists are those of before.
C36_DeleteOfNoCellIsNoOp ==
  DeleteOfNoCell => state = last.prev

-----------------------------------------------------------------------------
(* Cell identities.                                                        *)

\* every cell id is at one place: in one column, at one index
UniqueCellIds(cols) ==
  /\ CountCells(cols) = Cardinality(CellIds(cols))
  /\ \A id \in CellIds(cols) : Cardinality(PlacesOf(cols, id)) = 1

\* C37: on every board reached each cell id occurs in exactly one column at
\* exactly one index; a cell drag (quadrant board, variant, simple board)
\* changes neither the number of cells nor the set of cell ids; a
\* delete-cell removes exactly one id or none, the id of the cell it names
\* when it names one; add-column adds exactly one id, one the board did not
\* have.
C37_UniqueCellIds ==
  /\ UniqueCellIds(Columns)
  /\ UniqueCellIds(simple.columns)
  /\ CellDrag =>
       /\ CellIds(Columns) = CellIds(last.prev.columns)
       /\ CountCells(Columns) = CountCells(last.prev.columns)
  /\ SimpleCellDrag =>
       /\ CellIds(simple.columns) = CellIds(last.prevSimple.columns)
       /\ CountCells(simple.columns) = CountCells(last.prevSimple.columns)
  /\ last.op = "deleteCell" =>
       /\ \/ state = last.prev
          \/ \E id \in CellIds(last.prev.columns) :
               /\ CellIds(Columns) = CellIds(last.prev.columns) \ {id}
               /\ CountCells(Columns) = CountCells(last.prev.columns) - 1
       /\ LastDeleteCell # None =>
            CellIds(Columns) = CellIds(last.prev.columns) \ {LastDeleteCell.id}
  /\ last.op = "addColumn" =>
       /\ last.cellId \notin CellIds(last.prev.columns)
       /\ CellIds(Columns) = CellIds(last.prev.columns) \cup {last.cellId}
       /\ CountCells(Columns) = CountCells(last.prev.columns) + 1

\* C37 witness: a cell was moved to another column and is at one place of
\* the board, which holds the cells it held.
C37_Witness ==
  /\ CrossColumnMove
  /\ Cardinality(PlacesOf(Columns, LastDragged.id)) = 1
  /\ PlacesOf(Columns, LastDragged.id) # PlacesOf(last.prev.columns, LastDragged.id)
  /\ CellIds(Columns) = CellIds(last.prev.columns)
  /\ CountCells(Columns) = CountCells(last.prev.columns)

\* C37 witness: a cell of the simple board was moved to another column.
C37_WitnessSimple ==
  /\ SimpleCellDrag
  /\ simple # last.prevSimple
  /\ UniqueCellIds(simple.columns)
  /\ CountCells(simple.columns) = CountCells(last.prevSimple.columns)

-----------------------------------------------------------------------------
(* The keys of the content map.                                            *)

\* the content map has a list for each cell of the board and for no other id
KeysMatch(board) == DOMAIN board.cardsByCell = CellIds(board.columns)

\* the cell ids the last command was given name cells of the board it found
CellArgumentsOnBoard ==
  /\ last.op \in {"addCard", "removeCard"} => last.cellId \in CellIds(last.prev.columns)
  /\ CardMove =>
       /\ NamedCell(parseCardDroppableId(last.result.source.droppableId))
            \in CellIds(last.prev.columns)
       /\ NamedCell(parseCardDroppableId(last.result.destination[1].droppableId))
            \in CellIds(last.prev.columns)

\* C38: the keys of cardsByCell are the ids of the cells in the columns on
\* the constructed board, and every add-column, delete-cell, drag-move,
\* add-card, remove-card and move-card command whose cell id arguments name
\* cells of the board keeps them so; hence they are so in every state such
\* commands reach.
C38_ContentKeysMatchBoard ==
  /\ KeysMatch(createInitialBoard)
  /\ last.op = "init" => KeysMatch(state)
  /\ (KeysMatch(last.prev) /\ CellArgumentsOnBoard) => KeysMatch(state)

\* C38 witnesses: a card was added to a cell, a card was removed from a list
\* of one card, a cell was deleted, a column was added, a card was moved: the
\* keys are the cell ids.
C38_Witness ==
  /\ last.op = "removeCard"
  /\ last.cellId \in CellIds(Columns)
  /\ Len(last.prev.cardsByCell[last.cellId]) = 1
  /\ state.cardsByCell[last.cellId] = <<>>
  /\ KeysMatch(state)

C38_WitnessAddCard ==
  /\ last.op = "addCard"
  /\ last.cellId \in CellIds(Columns)
  /\ Len(state.cardsByCell[last.cellId]) = Len(last.prev.cardsByCell[last.cellId]) + 1
  /\ KeysMatch(state)

C38_WitnessDeleteCell ==
  /\ last.op = "deleteCell"
  /\ state # last.prev
  /\ KeysMatch(state)

C38_WitnessAddColumn ==
  /\ last.op = "addColumn"
  /\ last.cellId \in DOMAIN state.cardsByCell
  /\ KeysMatch(state)

C38_WitnessMoveCard ==
  /\ CardMove
  /\ state # last.prev
  /\ CellArgumentsOnBoard
  /\ KeysMatch(state)

====
